---- MODULE Spec2Model ----
(***************************************************************************)
(* A model of the streaming path of the firebase client library:           *)
(*   firebaseAPI.Stream (src/api.go)  - the watchdog goroutine that closes *)
(*       the response body on stop, and the reader goroutine that scans    *)
(*       the body into RawEvents and ends with one closing RawEvent;       *)
(*   client.Watch (src/declarations.go) - the goroutine that turns         *)
(*       RawEvents into StreamEvents on the channel handed to the caller.  *)
(* The server, the network, the caller's stop channel and the caller's     *)
(* receive loop are the environment.                                       *)
(*                                                                         *)
(* Go strings that come off the wire are sequences of tokens, so that the  *)
(* literal prefixes "event: " and "data: " are tokens a line may or may    *)
(* not contain, and strings.Replace is computed on the sequence.           *)
(***************************************************************************)
EXTENDS Integers, Sequences, FiniteSets, TLC

VARIABLES
    conn,        \* the server side of the connection: "open", "eof" (closed by
                 \* the server, all data read), "reset" (transport failure)
    stop,        \* the caller's stop channel: "idle", "sent" (a value was sent), "closed"
    wdPc,        \* watchdog goroutine (api.go:111-114): "wait", "done"
    bodyCloses,  \* number of response.Body.Close() calls
    wire,        \* history: the lines the reader has read off the body, in order
    firstLine,   \* reader goroutine's firstLine
    rPc,         \* reader goroutine: "read", "send", "sendClose", "done"
    rPend,       \* the RawEvent the reader is about to send
    rawSent,     \* history: every RawEvent sent on the events channel, in order
    rawRecv,     \* how many of them Watch's goroutine has received
    rawCloses,   \* number of close(events) calls
    unmarshaller,\* Watch's unmarshaller argument
    wPc,         \* Watch's goroutine: "recv", "send", "done"
    wPend,       \* the StreamEvent Watch's goroutine is about to send
    outSent,     \* history: every StreamEvent sent on processedEvents, in order
    outRecv,     \* how many of them the caller has received
    outCloses,   \* number of close(processedEvents) calls
    panicked,    \* a goroutine sent on, or closed, a closed channel
    stopLate,    \* history: stop was signalled after Watch's goroutine had returned
    readErr,     \* the reader's err: what ReadByte failed with (NilError before)
    umCalls,     \* history: the (idx, path, data) of every call of the unmarshaller
    response,    \* what doFirebaseRequest gives Stream: [err, status]
    returned,    \* what Watch returned to its caller: [done, channel, err],
                 \* done being FALSE while the call runs
    pairs,       \* the (event, data) fields of the frames in the response body
    body,        \* the bytes of the response body not read yet
    lineBuf,     \* reader goroutine's lineBuf
    requests,    \* history: number of streaming GET requests Stream has issued
    callPc,      \* firebaseAPI.Call: "idle", "request", "finish", "returned"
    retries,     \* Call's retries
    callResp,    \* Call's response, err of the last doFirebaseRequest
    callDest,    \* Call's dest argument is non-nil
    callRet,     \* the error Call returned
    attempts,    \* history: how many calls of doFirebaseRequest Call has made, by
                 \* outcome: [transport, status, ok]
    respCloses,  \* history: for every response Call obtained, in order, the
                 \* number of Close() calls on its Body
    maps,        \* the heap of params maps: maps[id] is the map with that identity
    clients,     \* every client made so far, the root first
    env,         \* the process environment: name -> [set, value]
    parsed       \* history: the last call of parseTimeout / parseTunable

vars == <<conn, stop, wdPc, bodyCloses, wire, firstLine, rPc, rPend, rawSent,
          rawRecv, rawCloses, unmarshaller, wPc, wPend, outSent, outRecv,
          outCloses, panicked, stopLate, readErr, umCalls, response, returned,
          pairs, body, lineBuf, requests, callPc, retries, callResp, callDest,
          callRet, attempts, respCloses, maps, clients, env, parsed>>

\* The variables of the call of Watch, and of the byte-wise read of the body.
openVars == <<response, returned, requests>>
scanVars == <<pairs, body, lineBuf>>

\* The variables of Call, of the query builders and of the tunables.
callVars == <<callPc, retries, callResp, callDest, callRet, attempts, respCloses>>
queryVars == <<maps, clients>>
envVars == <<env, parsed>>
libVars == <<callVars, queryVars, envVars>>

---------------------------------------------------------------------------
(* Bounds of the model. *)

\* The number of lines the server sends in one session.
MaxLines == 4

\* The capacity of the two buffered channels. The code makes them with
\* capacity 1000; the model scales it down so that a sender with a frame in
\* its hands finds the buffer full.
ChanCap == 1

\* The number of event/data pairs of a response body read byte by byte.
MaxPairs == 2

\* The number of lines of a response body made of arbitrary lines.
MaxBodyLines == 4

\* The number of clients made, the root included.
MaxClients == 4

---------------------------------------------------------------------------
(* Strings *)

EventPrefix == "event: "
DataPrefix == "data: "
EmptyString == <<>>

\* Position of the first occurrence of token old in s, 0 when there is none.
IndexOf(s, old) ==
    IF \E i \in 1..Len(s) : s[i] = old
    THEN CHOOSE i \in 1..Len(s) : s[i] = old /\ \A j \in 1..(i-1) : s[j] # old
    ELSE 0

\* strings.Replace(s, old, "", 1): s without the first occurrence of old.
StringsReplace(s, old) ==
    LET i == IndexOf(s, old)
    IN  IF i = 0 THEN s
        ELSE SubSeq(s, 1, i-1) \o SubSeq(s, i+1, Len(s))

---------------------------------------------------------------------------
(* Errors *)

NilError == "nil"
ErrEOF == "EOF"
ErrBodyClosed == "http: read on closed response body"
ErrConnReset == "read: connection reset by peer"
ErrPermissionDenied == "Permission Denied"
ErrAuthRevoked == "Auth Token Revoked"
ErrJSONSyntax == "invalid character 'y' looking for beginning of object key string"
ErrJSONType == "json: cannot unmarshal array into Go value"
ErrJSONEnd == "unexpected end of JSON input"
ErrDial == "dial tcp: connection refused"
ErrNilDereference == "invalid memory address or nil pointer dereference"

TransportErrors == {ErrBodyClosed, ErrConnReset}

---------------------------------------------------------------------------
(* The wire *)

JsonNull == "null"
JsonEnvelope == "{'path': '1/2/3', 'data': {'a':1}}"
JsonEnvelopeArray == "{'path': '1/2/3', 'data': [1]}"
JsonBad == "{you know I'm bad, I'm bad}"

EventLine(type) == <<EventPrefix, type>>
DataLine(payload) == <<DataPrefix, payload>>

EventTypes == {"put", "patch", "keep-alive", "cancel", "auth_revoked"}

\* What the server sends as the data of an event of the given type.
PayloadsFor(type) ==
    IF type = "put" THEN {JsonEnvelope, JsonBad}
    ELSE IF type = "patch" THEN {JsonEnvelope, JsonEnvelopeArray}
    ELSE {JsonNull}

\* The body of a response with an error status.
JsonError == "{'error': 'Permission denied'}"

\* The lines the server may send next, given the lines it has sent: with an
\* error status the one line of the error body; with a success status a data
\* line after an event line, and otherwise an event line or a blank line.
ServerLines(sent) ==
    IF response.status >= 400
    THEN IF sent = <<>> THEN {<<JsonError>>} ELSE {}
    ELSE IF sent # <<>> /\ Len(sent[Len(sent)]) = 2 /\ sent[Len(sent)][1] = EventPrefix
    THEN {DataLine(p) : p \in PayloadsFor(sent[Len(sent)][2])}
    ELSE {EventLine(t) : t \in EventTypes} \cup {EmptyString}

---------------------------------------------------------------------------
(* RawEvent and the reader goroutine of Stream *)

\* RawEvent; idx is history, the position on the wire of the line that
\* completed the frame (0 for the closing event).
RawEvent(event, data, err, idx) ==
    [Event |-> event, Data |-> data, Error |-> err, idx |-> idx]

NoEvent == [none |-> TRUE]

\* One newline read by the reader's loop, with lineBuf holding `line`:
\* the new firstLine, and the RawEvent to send if the line completes a frame.
ScanLine(first, line, idx) ==
    IF first = EmptyString
    THEN [emit |-> FALSE, firstLine |-> line, event |-> NoEvent]
    ELSE [emit |-> TRUE, firstLine |-> first,
          event |-> RawEvent(StringsReplace(first, EventPrefix),
                             StringsReplace(line, DataPrefix), NilError, idx)]

\* CloseError without the translation of io.EOF.
CloseErrorKeepEOF(err) == err

\* CloseError dropping the error the read failed with.
CloseErrorAlwaysNil(err) == NilError

\* The error of the closing event: io.EOF is a clean end.
CloseError(err) == IF err = ErrEOF THEN NilError ELSE err

\* What ReadByte can fail with in the current state.
ReadFailures ==
    (IF conn = "eof" THEN {ErrEOF} ELSE {})
    \cup (IF conn = "reset" THEN {ErrConnReset} ELSE {})
    \cup (IF bodyCloses > 0 THEN {ErrBodyClosed} ELSE {})

RawLen == Len(rawSent) - rawRecv
OutLen == Len(outSent) - outRecv

ReadLine ==
    /\ rPc = "read"
    /\ conn = "open"
    /\ Len(wire) < MaxLines
    /\ \E line \in ServerLines(wire) :
         LET r == ScanLine(firstLine, line, Len(wire) + 1)
         IN  /\ wire' = Append(wire, line)
             /\ IF r.emit
                THEN /\ rPend' = r.event
                     /\ rPc' = "send"
                     /\ UNCHANGED firstLine
                ELSE /\ firstLine' = r.firstLine
                     /\ UNCHANGED <<rPend, rPc>>
    /\ UNCHANGED <<libVars, openVars, scanVars, readErr, umCalls,
                   stopLate, conn, stop, wdPc, bodyCloses, rawSent, rawRecv, rawCloses,
                   unmarshaller, wPc, wPend, outSent, outRecv, outCloses, panicked>>

\* SendRaw without the reset of firstLine after the send.
SendRawKeepFirstLine ==
    /\ rPc = "send"
    /\ RawLen < ChanCap
    /\ IF rawCloses > 0
       THEN panicked' = TRUE /\ UNCHANGED rawSent
       ELSE rawSent' = Append(rawSent, rPend) /\ UNCHANGED panicked
    /\ rPend' = NoEvent
    /\ rPc' = "read"
    /\ UNCHANGED <<libVars, openVars, scanVars, readErr, umCalls,
                   stopLate, conn, stop, wdPc, bodyCloses, wire, firstLine, rawRecv,
                   rawCloses, unmarshaller, wPc, wPend, outSent, outRecv, outCloses>>

\* SendRaw discarding the event when the buffer of the channel is full.
SendRawDropWhenFull ==
    /\ rPc = "send"
    /\ IF RawLen < ChanCap
       THEN rawSent' = Append(rawSent, rPend)
       ELSE UNCHANGED rawSent
    /\ firstLine' = EmptyString
    /\ rPend' = NoEvent
    /\ rPc' = "read"
    /\ UNCHANGED <<libVars, openVars, scanVars, readErr, umCalls,
                   stopLate, conn, stop, wdPc, bodyCloses, wire, rawRecv, rawCloses,
                   unmarshaller, wPc, wPend, outSent, outRecv, outCloses, panicked>>

\* events <- event; firstLine = ""
SendRaw ==
    /\ rPc = "send"
    /\ RawLen < ChanCap
    /\ IF rawCloses > 0
       THEN panicked' = TRUE /\ UNCHANGED rawSent
       ELSE rawSent' = Append(rawSent, rPend) /\ UNCHANGED panicked
    /\ firstLine' = EmptyString
    /\ rPend' = NoEvent
    /\ rPc' = "read"
    /\ UNCHANGED <<libVars, openVars, scanVars, readErr, umCalls,
                   stopLate, conn, stop, wdPc, bodyCloses, wire, rawRecv, rawCloses,
                   unmarshaller, wPc, wPend, outSent, outRecv, outCloses>>

\* ReadEnd closing the response body itself.
ReadEndClosesBody ==
    /\ rPc = "read"
    /\ \E err \in ReadFailures :
         /\ readErr' = err
         /\ rPend' = RawEvent(EmptyString, EmptyString, CloseError(err), 0)
    /\ bodyCloses' = bodyCloses + 1
    /\ rPc' = "sendClose"
    /\ UNCHANGED <<libVars, openVars, scanVars, umCalls,
                   stopLate, conn, stop, wdPc, wire, firstLine, rawSent,
                   rawRecv, rawCloses, unmarshaller, wPc, wPend, outSent,
                   outRecv, outCloses, panicked>>

\* ReadEnd issuing the request again after a failed read.
ReadEndReconnects ==
    /\ rPc = "read"
    /\ ReadFailures # {}
    /\ requests' = requests + 1
    /\ conn' = "open"
    /\ UNCHANGED <<libVars, response, returned, scanVars, readErr, umCalls,
                   stopLate, stop, wdPc, bodyCloses, wire, firstLine, rPc, rPend,
                   rawSent, rawRecv, rawCloses, unmarshaller, wPc, wPend, outSent,
                   outRecv, outCloses, panicked>>

\* ReadByte fails: the loop breaks and the closing event is built.
ReadEnd ==
    /\ rPc = "read"
    /\ \E err \in ReadFailures :
         /\ readErr' = err
         /\ rPend' = RawEvent(EmptyString, EmptyString, CloseError(err), 0)
    /\ rPc' = "sendClose"
    /\ UNCHANGED <<libVars, openVars, scanVars, umCalls,
                   stopLate, conn, stop, wdPc, bodyCloses, wire, firstLine, rawSent,
                   rawRecv, rawCloses, unmarshaller, wPc, wPend, outSent,
                   outRecv, outCloses, panicked>>

\* SendClose without close(events).
SendCloseNoClose ==
    /\ rPc = "sendClose"
    /\ RawLen < ChanCap
    /\ IF rawCloses > 0
       THEN panicked' = TRUE /\ UNCHANGED rawSent
       ELSE rawSent' = Append(rawSent, rPend) /\ UNCHANGED panicked
    /\ rPend' = NoEvent
    /\ rPc' = "done"
    /\ UNCHANGED <<libVars, openVars, scanVars, readErr, umCalls,
                   stopLate, conn, stop, wdPc, bodyCloses, wire, firstLine, rawRecv,
                   rawCloses, unmarshaller, wPc, wPend, outSent, outRecv, outCloses>>

\* events <- closeEvent; close(events)
SendClose ==
    /\ rPc = "sendClose"
    /\ RawLen < ChanCap
    /\ IF rawCloses > 0
       THEN panicked' = TRUE /\ UNCHANGED rawSent
       ELSE rawSent' = Append(rawSent, rPend) /\ UNCHANGED panicked
    /\ rawCloses' = rawCloses + 1
    /\ rPend' = NoEvent
    /\ rPc' = "done"
    /\ UNCHANGED <<libVars, openVars, scanVars, readErr, umCalls,
                   stopLate, conn, stop, wdPc, bodyCloses, wire, firstLine, rawRecv,
                   unmarshaller, wPc, wPend, outSent, outRecv, outCloses>>

---------------------------------------------------------------------------
(* The watchdog goroutine of Stream *)

\* A watchdog that receives from stop and returns without closing the body.
WatchdogNoClose ==
    /\ wdPc = "wait"
    /\ stop # "idle"
    /\ wdPc' = "done"
    /\ UNCHANGED <<libVars, openVars, scanVars, readErr, umCalls,
                   stopLate, conn, stop, bodyCloses, wire, firstLine, rPc, rPend,
                   rawSent, rawRecv, rawCloses, unmarshaller, wPc, wPend, outSent,
                   outRecv, outCloses, panicked>>

\* A watchdog that also closes the events channel.
WatchdogClosesEvents ==
    /\ wdPc = "wait"
    /\ stop # "idle"
    /\ bodyCloses' = bodyCloses + 1
    /\ rawCloses' = rawCloses + 1
    /\ panicked' = (panicked \/ rawCloses > 0)
    /\ wdPc' = "done"
    /\ UNCHANGED <<libVars, openVars, scanVars, readErr, umCalls,
                   stopLate, conn, stop, wire, firstLine, rPc, rPend, rawSent,
                   rawRecv, unmarshaller, wPc, wPend, outSent, outRecv, outCloses>>

\* <-stop; response.Body.Close()
Watchdog ==
    /\ wdPc = "wait"
    /\ stop # "idle"
    /\ bodyCloses' = bodyCloses + 1
    /\ wdPc' = "done"
    /\ UNCHANGED <<libVars, openVars, scanVars, readErr, umCalls,
                   stopLate, conn, stop, wire, firstLine, rPc, rPend, rawSent, rawRecv,
                   rawCloses, unmarshaller, wPc, wPend, outSent, outRecv,
                   outCloses, panicked>>

---------------------------------------------------------------------------
(* StreamEvent and Watch's goroutine *)

NilResource == "nil"
EmptyPath == ""

\* json.Unmarshal of the data string into struct{Path string; Data json.RawMessage}.
DecodeEnvelope(rawData) ==
    IF rawData = <<JsonEnvelope>>
    THEN [err |-> NilError, Path |-> "1/2/3", Data |-> "{'a':1}"]
    ELSE IF rawData = <<JsonEnvelopeArray>>
    THEN [err |-> NilError, Path |-> "1/2/3", Data |-> "[1]"]
    ELSE IF rawData = <<JsonNull>>
    THEN [err |-> NilError, Path |-> EmptyPath, Data |-> ""]
    ELSE [err |-> ErrJSONSyntax, Path |-> EmptyPath, Data |-> ""]

\* json.Unmarshal(data, &object) with object a map[string]interface{}.
defaultUnmarshaller(path, data) ==
    IF data = "{'a':1}" THEN [object |-> "map[a:1]", err |-> NilError]
    ELSE IF data = "" THEN [object |-> "map[]", err |-> ErrJSONEnd]
    ELSE [object |-> "map[]", err |-> ErrJSONType]

\* A caller's unmarshaller: json.Unmarshal(data, &w) with w a Widget.
widgetUnmarshaller(path, data) ==
    IF data = "{'a':1}" THEN [object |-> "Widget{A:1}", err |-> NilError]
    ELSE IF data = "" THEN [object |-> "Widget{}", err |-> ErrJSONEnd]
    ELSE [object |-> "Widget{}", err |-> ErrJSONType]

Unmarshallers == {"nil", "widget"}

\* The unmarshaller Watch's goroutine uses: unmarshaller itself.
EffectiveUnmarshallerKeepNil(um) == um

\* if unmarshaller == nil { unmarshaller = defaultUnmarshaller }
EffectiveUnmarshaller(um) == IF um = "nil" THEN "default" ELSE um

\* unmarshaller(path, data): the call of a nil func value is a run-time panic,
\* which yields no object.
CallUnmarshaller(um, path, data) ==
    IF um = "widget" THEN widgetUnmarshaller(path, data)
    ELSE IF um = "default" THEN defaultUnmarshaller(path, data)
    ELSE [object |-> NilResource, err |-> ErrNilDereference]

\* The calls of the unmarshaller one iteration of Watch's loop makes: one, for
\* a patch or put event without Error whose envelope decodes; none otherwise.
UnmarshallerCalls(rawEvent, um) ==
    IF /\ rawEvent.Error = NilError
       /\ rawEvent.Event \in {<<"patch">>, <<"put">>}
       /\ DecodeEnvelope(rawEvent.Data).err = NilError
    THEN <<[idx |-> rawEvent.idx, um |-> um,
            path |-> DecodeEnvelope(rawEvent.Data).Path,
            data |-> DecodeEnvelope(rawEvent.Data).Data]>>
    ELSE <<>>

\* handlePatchPut without the return after a failed decode of the envelope.
handlePatchPutNoEarlyReturn(event, um) ==
    LET half == DecodeEnvelope(event.RawData)
        r == CallUnmarshaller(um, half.Path, half.Data)
        withErr == IF half.err # NilError
                   THEN [event EXCEPT !.Error = half.err]
                   ELSE event
        withPath == [withErr EXCEPT !.Path = half.Path]
    IN  IF r.err # NilError
        THEN [withPath EXCEPT !.UnmarshallerError = r.err]
        ELSE [withPath EXCEPT !.Resource = r.object]

\* handlePatchPut storing the unmarshaller's object whatever its error.
handlePatchPutKeepsObject(event, um) ==
    LET half == DecodeEnvelope(event.RawData)
    IN  IF half.err # NilError
        THEN [event EXCEPT !.Error = half.err]
        ELSE LET r == CallUnmarshaller(um, half.Path, half.Data)
                 withPath == [event EXCEPT !.Path = half.Path,
                                           !.Resource = r.object]
             IN  IF r.err # NilError
                 THEN [withPath EXCEPT !.UnmarshallerError = r.err]
                 ELSE withPath

\* handlePatchPut without event.Path = half.Path.
handlePatchPutNoPath(event, um) ==
    LET half == DecodeEnvelope(event.RawData)
    IN  IF half.err # NilError
        THEN [event EXCEPT !.Error = half.err]
        ELSE LET r == CallUnmarshaller(um, half.Path, half.Data)
             IN  IF r.err # NilError
                 THEN [event EXCEPT !.UnmarshallerError = r.err]
                 ELSE [event EXCEPT !.Resource = r.object]

\* handlePatchPut storing the unmarshaller's error in Error.
handlePatchPutErrorField(event, um) ==
    LET half == DecodeEnvelope(event.RawData)
    IN  IF half.err # NilError
        THEN [event EXCEPT !.Error = half.err]
        ELSE LET r == CallUnmarshaller(um, half.Path, half.Data)
                 withPath == [event EXCEPT !.Path = half.Path]
             IN  IF r.err # NilError
                 THEN [withPath EXCEPT !.Error = r.err]
                 ELSE [withPath EXCEPT !.Resource = r.object]

handlePatchPut(event, um) ==
    LET half == DecodeEnvelope(event.RawData)
    IN  IF half.err # NilError
        THEN [event EXCEPT !.Error = half.err]
        ELSE LET r == CallUnmarshaller(um, half.Path, half.Data)
                 withPath == [event EXCEPT !.Path = half.Path]
             IN  IF r.err # NilError
                 THEN [withPath EXCEPT !.UnmarshallerError = r.err]
                 ELSE [withPath EXCEPT !.Resource = r.object]

\* The StreamEvent built from a RawEvent before dispatch.
StreamEventOf(rawEvent) ==
    [Event |-> rawEvent.Event, Path |-> EmptyPath, Resource |-> NilResource,
     RawData |-> rawEvent.Data, UnmarshallerError |-> NilError,
     Error |-> rawEvent.Error, idx |-> rawEvent.idx]

\* WatchHandle with auth_revoked handled like cancel (no close, no return).
WatchHandleAuthNotFatal(rawEvent, um) ==
    LET event == StreamEventOf(rawEvent)
    IN  IF event.Error # NilError
        THEN [deliver |-> TRUE, fatal |-> FALSE, event |-> event]
        ELSE IF event.Event \in {<<"patch">>, <<"put">>}
        THEN [deliver |-> TRUE, fatal |-> FALSE, event |-> handlePatchPut(event, um)]
        ELSE IF event.Event = <<"keep-alive">>
        THEN [deliver |-> FALSE, fatal |-> FALSE, event |-> event]
        ELSE IF event.Event = <<"cancel">>
        THEN [deliver |-> TRUE, fatal |-> FALSE,
              event |-> [event EXCEPT !.Error = ErrPermissionDenied]]
        ELSE IF event.Event = <<"auth_revoked">>
        THEN [deliver |-> TRUE, fatal |-> FALSE,
              event |-> [event EXCEPT !.Error = ErrAuthRevoked]]
        ELSE [deliver |-> FALSE, fatal |-> FALSE, event |-> event]

\* WatchHandle without the forwarding of connection errors.
WatchHandleNoErrorCheck(rawEvent, um) ==
    LET event == StreamEventOf(rawEvent)
    IN  IF event.Event \in {<<"patch">>, <<"put">>}
        THEN [deliver |-> TRUE, fatal |-> FALSE, event |-> handlePatchPut(event, um)]
        ELSE IF event.Event = <<"keep-alive">>
        THEN [deliver |-> FALSE, fatal |-> FALSE, event |-> event]
        ELSE IF event.Event = <<"cancel">>
        THEN [deliver |-> TRUE, fatal |-> FALSE,
              event |-> [event EXCEPT !.Error = ErrPermissionDenied]]
        ELSE IF event.Event = <<"auth_revoked">>
        THEN [deliver |-> TRUE, fatal |-> TRUE,
              event |-> [event EXCEPT !.Error = ErrAuthRevoked]]
        ELSE [deliver |-> FALSE, fatal |-> FALSE, event |-> event]

\* WatchHandle with the keep-alive case forwarding the event.
WatchHandleKeepAliveDelivered(rawEvent, um) ==
    LET event == StreamEventOf(rawEvent)
    IN  IF event.Error # NilError
        THEN [deliver |-> TRUE, fatal |-> FALSE, event |-> event]
        ELSE IF event.Event \in {<<"patch">>, <<"put">>}
        THEN [deliver |-> TRUE, fatal |-> FALSE, event |-> handlePatchPut(event, um)]
        ELSE IF event.Event = <<"keep-alive">>
        THEN [deliver |-> TRUE, fatal |-> FALSE, event |-> event]
        ELSE IF event.Event = <<"cancel">>
        THEN [deliver |-> TRUE, fatal |-> FALSE,
              event |-> [event EXCEPT !.Error = ErrPermissionDenied]]
        ELSE IF event.Event = <<"auth_revoked">>
        THEN [deliver |-> TRUE, fatal |-> TRUE,
              event |-> [event EXCEPT !.Error = ErrAuthRevoked]]
        ELSE [deliver |-> FALSE, fatal |-> FALSE, event |-> event]

\* WatchHandle with a default case forwarding the events of every other type.
WatchHandleForwardsOthers(rawEvent, um) ==
    LET event == StreamEventOf(rawEvent)
    IN  IF event.Error # NilError
        THEN [deliver |-> TRUE, fatal |-> FALSE, event |-> event]
        ELSE IF event.Event \in {<<"patch">>, <<"put">>}
        THEN [deliver |-> TRUE, fatal |-> FALSE, event |-> handlePatchPut(event, um)]
        ELSE IF event.Event = <<"keep-alive">>
        THEN [deliver |-> FALSE, fatal |-> FALSE, event |-> event]
        ELSE IF event.Event = <<"cancel">>
        THEN [deliver |-> TRUE, fatal |-> FALSE,
              event |-> [event EXCEPT !.Error = ErrPermissionDenied]]
        ELSE IF event.Event = <<"auth_revoked">>
        THEN [deliver |-> TRUE, fatal |-> TRUE,
              event |-> [event EXCEPT !.Error = ErrAuthRevoked]]
        ELSE [deliver |-> TRUE, fatal |-> FALSE, event |-> event]

\* WatchHandle with a default case decoding the events of every other type
\* like a put.
WatchHandleDecodesOthers(rawEvent, um) ==
    LET event == StreamEventOf(rawEvent)
    IN  IF event.Error # NilError
        THEN [deliver |-> TRUE, fatal |-> FALSE, event |-> event]
        ELSE IF event.Event = <<"keep-alive">>
        THEN [deliver |-> FALSE, fatal |-> FALSE, event |-> event]
        ELSE IF event.Event = <<"cancel">>
        THEN [deliver |-> TRUE, fatal |-> FALSE,
              event |-> [event EXCEPT !.Error = ErrPermissionDenied]]
        ELSE IF event.Event = <<"auth_revoked">>
        THEN [deliver |-> TRUE, fatal |-> TRUE,
              event |-> [event EXCEPT !.Error = ErrAuthRevoked]]
        ELSE [deliver |-> TRUE, fatal |-> FALSE, event |-> handlePatchPut(event, um)]

\* One iteration of Watch's range loop: whether an event is sent, the event,
\* and whether the goroutine closes the channel and returns after sending it.
WatchHandle(rawEvent, um) ==
    LET event == StreamEventOf(rawEvent)
    IN  IF event.Error # NilError
        THEN [deliver |-> TRUE, fatal |-> FALSE, event |-> event]
        ELSE IF event.Event \in {<<"patch">>, <<"put">>}
        THEN [deliver |-> TRUE, fatal |-> FALSE, event |-> handlePatchPut(event, um)]
        ELSE IF event.Event = <<"keep-alive">>
        THEN [deliver |-> FALSE, fatal |-> FALSE, event |-> event]
        ELSE IF event.Event = <<"cancel">>
        THEN [deliver |-> TRUE, fatal |-> FALSE,
              event |-> [event EXCEPT !.Error = ErrPermissionDenied]]
        ELSE IF event.Event = <<"auth_revoked">>
        THEN [deliver |-> TRUE, fatal |-> TRUE,
              event |-> [event EXCEPT !.Error = ErrAuthRevoked]]
        ELSE [deliver |-> FALSE, fatal |-> FALSE, event |-> event]

\* AfterSend without the return that follows close(processedEvents).
AfterSendNoReturn(fatal) == "recv"

\* Where Watch's goroutine goes after sending an event.
AfterSend(fatal) == IF fatal THEN "done" ELSE "recv"

\* rawEvent := <-rawEvents, up to the send on processedEvents or the next receive
WatchRecv ==
    /\ wPc = "recv"
    /\ RawLen > 0
    /\ rawRecv' = rawRecv + 1
    /\ LET um == EffectiveUnmarshaller(unmarshaller)
           h == WatchHandle(rawSent[rawRecv + 1], um)
           calls == UnmarshallerCalls(rawSent[rawRecv + 1], um)
       IN  /\ umCalls' = umCalls \o calls
           /\ panicked' = (panicked \/ (calls # <<>> /\ um = "nil"))
           /\ IF h.deliver
              THEN wPend' = [event |-> h.event, fatal |-> h.fatal] /\ wPc' = "send"
              ELSE UNCHANGED <<wPend, wPc>>
    /\ UNCHANGED <<libVars, openVars, scanVars, readErr,
                   stopLate, conn, stop, wdPc, bodyCloses, wire, firstLine, rPc, rPend,
                   rawSent, rawCloses, unmarshaller, outSent, outRecv,
                   outCloses>>

\* processedEvents <- event, and on the fatal path close(processedEvents); return
WatchSend ==
    /\ wPc = "send"
    /\ OutLen < ChanCap
    /\ LET closedNow == outCloses > 0
       IN  /\ IF closedNow THEN UNCHANGED outSent
              ELSE outSent' = Append(outSent, wPend.event)
           /\ outCloses' = IF wPend.fatal THEN outCloses + 1 ELSE outCloses
           /\ panicked' = (panicked \/ closedNow)
    /\ wPc' = AfterSend(wPend.fatal)
    /\ wPend' = NoEvent
    /\ UNCHANGED <<libVars, openVars, scanVars, readErr, umCalls,
                   stopLate, conn, stop, wdPc, bodyCloses, wire, firstLine, rPc, rPend,
                   rawSent, rawRecv, rawCloses, unmarshaller, outRecv>>

\* WatchRangeEnd without close(processedEvents).
WatchRangeEndNoClose ==
    /\ wPc = "recv"
    /\ RawLen = 0
    /\ rawCloses > 0
    /\ wPc' = "done"
    /\ UNCHANGED <<libVars, openVars, scanVars, readErr, umCalls,
                   stopLate, conn, stop, wdPc, bodyCloses, wire, firstLine, rPc,
                   rPend, rawSent, rawRecv, rawCloses, unmarshaller, wPend, outSent,
                   outRecv, outCloses, panicked>>

\* rawEvents is closed and drained: the range loop ends, close(processedEvents)
WatchRangeEnd ==
    /\ wPc = "recv"
    /\ RawLen = 0
    /\ rawCloses > 0
    /\ outCloses' = outCloses + 1
    /\ panicked' = (panicked \/ outCloses > 0)
    /\ wPc' = "done"
    /\ UNCHANGED <<libVars, openVars, scanVars, readErr, umCalls,
                   stopLate, conn, stop, wdPc, bodyCloses, wire, firstLine, rPc, rPend,
                   rawSent, rawRecv, rawCloses, unmarshaller, wPend, outSent,
                   outRecv>>

---------------------------------------------------------------------------
(* The environment *)

\* The caller sends a value on the stop channel, or closes it.
SignalStop ==
    /\ stop = "idle"
    /\ \E how \in {"sent", "closed"} : stop' = how
    /\ stopLate' = (wPc = "done")
    /\ UNCHANGED <<libVars, openVars, scanVars, readErr, umCalls,
                   conn, wdPc, bodyCloses, wire, firstLine, rPc, rPend, rawSent,
                   rawRecv, rawCloses, unmarshaller, wPc, wPend, outSent,
                   outRecv, outCloses, panicked>>

\* The server closes the connection.
ServerClose ==
    /\ conn = "open"
    /\ conn' = "eof"
    /\ UNCHANGED <<libVars, openVars, scanVars, readErr, umCalls,
                   stopLate, stop, wdPc, bodyCloses, wire, firstLine, rPc, rPend, rawSent,
                   rawRecv, rawCloses, unmarshaller, wPc, wPend, outSent,
                   outRecv, outCloses, panicked>>

\* The connection breaks.
ConnReset ==
    /\ conn = "open"
    /\ conn' = "reset"
    /\ UNCHANGED <<libVars, openVars, scanVars, readErr, umCalls,
                   stopLate, stop, wdPc, bodyCloses, wire, firstLine, rPc, rPend, rawSent,
                   rawRecv, rawCloses, unmarshaller, wPc, wPend, outSent,
                   outRecv, outCloses, panicked>>

\* The caller receives one event from the channel Watch returned.
ConsumerRecv ==
    /\ OutLen > 0
    /\ outRecv' = outRecv + 1
    /\ UNCHANGED <<libVars, openVars, scanVars, readErr, umCalls,
                   stopLate, conn, stop, wdPc, bodyCloses, wire, firstLine, rPc, rPend,
                   rawSent, rawRecv, rawCloses, unmarshaller, wPc, wPend,
                   outSent, outCloses, panicked>>

---------------------------------------------------------------------------
(* The call of Watch *)

\* What doFirebaseRequest returns: an error of client.Do, or a response with
\* its status code.
Responses ==
    {[err |-> ErrDial, status |-> 0]}
        \cup {[err |-> NilError, status |-> st] : st \in {200, 401}}

\* c.api.Stream(...) and the rest of Watch up to its return: on an error both
\* return nil and the error; otherwise the three goroutines are started and
\* the channel is returned.
WatchCall ==
    /\ ~returned.done
    /\ \E r \in Responses :
         /\ response' = r
         /\ IF r.err # NilError
            THEN /\ returned' = [done |-> TRUE, channel |-> FALSE, err |-> r.err]
                 /\ conn' = "failed"
                 /\ UNCHANGED <<wdPc, rPc, wPc>>
            ELSE /\ returned' = [done |-> TRUE, channel |-> TRUE, err |-> NilError]
                 /\ conn' = "open"
                 /\ wdPc' = "wait"
                 /\ rPc' = "read"
                 /\ wPc' = "recv"
    /\ requests' = requests + 1
    /\ UNCHANGED <<libVars, scanVars, readErr, umCalls, stopLate, stop, bodyCloses, wire,
                   firstLine, rPend, rawSent, rawRecv, rawCloses, unmarshaller,
                   wPend, outSent, outRecv, outCloses, panicked>>

---------------------------------------------------------------------------
(* Stream's reader over the bytes of a response body *)

Newline == "\n"

\* The fields X and Y of the lines "event: X" and "data: Y": short, empty,
\* long, and holding the prefixes themselves.
Fields ==
    {<<"hi">>, <<>>, <<"l", "o", "n", "g", "!">>, <<"x", EventPrefix, DataPrefix>>}

PairSeqs == UNION {[1..n -> Fields \X Fields] : n \in 0..MaxPairs}

\* The bytes of the body made of the given pairs.
RECURSIVE BodyOf(_)
BodyOf(ps) ==
    IF ps = <<>> THEN <<>>
    ELSE <<EventPrefix>> \o ps[1][1] \o <<Newline>>
             \o <<DataPrefix>> \o ps[1][2] \o <<Newline>>
             \o BodyOf(Tail(ps))

\* An append that stops at the size of a fixed buffer.
AppendByteBounded(buf, b) == IF Len(buf) < 4 THEN Append(buf, b) ELSE buf

\* lineBuf = append(lineBuf, b)
AppendByte(buf, b) == Append(buf, b)

\* byteReader.ReadByte() returns a byte: it is appended to lineBuf, or, for
\* a newline, the line is taken as firstLine or completes a frame.
ScanReadByte ==
    /\ rPc = "read"
    /\ conn = "buffered"
    /\ body # <<>>
    /\ body' = Tail(body)
    /\ IF Head(body) # Newline
       THEN /\ lineBuf' = AppendByte(lineBuf, Head(body))
            /\ UNCHANGED <<wire, firstLine, rPend, rPc>>
       ELSE LET r == ScanLine(firstLine, lineBuf, Len(wire) + 1)
            IN  /\ wire' = Append(wire, lineBuf)
                /\ lineBuf' = EmptyString
                /\ IF r.emit
                   THEN /\ rPend' = r.event
                        /\ rPc' = "send"
                        /\ UNCHANGED firstLine
                   ELSE /\ firstLine' = r.firstLine
                        /\ UNCHANGED <<rPend, rPc>>
    /\ UNCHANGED <<libVars, openVars, pairs, readErr, umCalls, stopLate, conn, stop, wdPc,
                   bodyCloses, rawSent, rawRecv, rawCloses, unmarshaller, wPc,
                   wPend, outSent, outRecv, outCloses, panicked>>

\* ScanReadEnd emitting the frame whose event line was read, with what was
\* read of its data line, before the closing event.
ScanReadEndFlushes ==
    /\ rPc = "read"
    /\ conn = "buffered"
    /\ body = <<>>
    /\ IF firstLine # EmptyString
       THEN /\ rPend' = ScanLine(firstLine, lineBuf, Len(wire) + 1).event
            /\ rPc' = "send"
            /\ lineBuf' = EmptyString
            /\ UNCHANGED readErr
       ELSE /\ readErr' = ErrEOF
            /\ rPend' = RawEvent(EmptyString, EmptyString, CloseError(ErrEOF), 0)
            /\ rPc' = "sendClose"
            /\ UNCHANGED lineBuf
    /\ UNCHANGED <<libVars, openVars, pairs, body, umCalls, stopLate, conn, stop,
                   wdPc, bodyCloses, wire, firstLine, rawSent, rawRecv, rawCloses,
                   unmarshaller, wPc, wPend, outSent, outRecv, outCloses,
                   panicked>>

\* byteReader.ReadByte() returns io.EOF at the end of the body.
ScanReadEnd ==
    /\ rPc = "read"
    /\ conn = "buffered"
    /\ body = <<>>
    /\ readErr' = ErrEOF
    /\ rPend' = RawEvent(EmptyString, EmptyString, CloseError(ErrEOF), 0)
    /\ rPc' = "sendClose"
    /\ UNCHANGED <<libVars, openVars, scanVars, umCalls, stopLate, conn, stop, wdPc,
                   bodyCloses, wire, firstLine, rawSent, rawRecv, rawCloses,
                   unmarshaller, wPc, wPend, outSent, outRecv, outCloses,
                   panicked>>

\* The caller of Stream receives one event from the channel Stream returned.
RawConsumerRecv ==
    /\ wPc = "idle"
    /\ RawLen > 0
    /\ rawRecv' = rawRecv + 1
    /\ UNCHANGED <<libVars, openVars, scanVars, readErr, umCalls, stopLate, conn, stop,
                   wdPc, bodyCloses, wire, firstLine, rPc, rPend, rawSent,
                   rawCloses, unmarshaller, wPc, wPend, outSent, outRecv,
                   outCloses, panicked>>

---------------------------------------------------------------------------
(* firebaseAPI.Call *)

\* retries := 10
Retries == 10

\* Response bodies: none, Firebase's error object, another JSON object, and
\* text that is not JSON.
BodyEmpty == ""
BodyObject == "{'a':1}"
BodyGarbage == "<html>Bad Gateway</html>"
Bodies == {BodyEmpty, JsonError, BodyObject, BodyGarbage}

ErrJSONInvalid == "invalid character '<' looking for beginning of value"

\* What doFirebaseRequest returns to Call: an error of client.Do, or a
\* response with its status code and body, sent with a Content-Length header
\* or chunked.
CallResponses ==
    {[err |-> ErrDial, status |-> 0, body |-> BodyEmpty, chunked |-> FALSE]}
        \cup {[err |-> NilError, status |-> st, body |-> b, chunked |-> c] :
                  st \in {200, 403}, b \in Bodies, c \in BOOLEAN}

\* response.ContentLength != 0: the length is -1 for a chunked body.
ContentLengthNonZero(resp) == resp.chunked \/ resp.body # BodyEmpty

\* decoder.Decode(err) into a FirebaseError, the result of Decode ignored:
\* the Message is the "error" member of the body, if it has one.
DecodeFirebaseError(b) ==
    [kind |-> "FirebaseError",
     msg |-> IF b = JsonError THEN "Permission denied" ELSE ""]

\* decoder.Decode(dest)
DecodeDest(b) ==
    IF b = BodyEmpty THEN ErrEOF
    ELSE IF b = BodyGarbage THEN ErrJSONInvalid
    ELSE NilError

NoError == [kind |-> "nil", msg |-> ""]

\* CallResult returning nil whatever the status of the response.
CallResultIgnoresStatus(resp, dest) ==
    IF dest /\ ContentLengthNonZero(resp) /\ DecodeDest(resp.body) # NilError
    THEN [kind |-> "error", msg |-> DecodeDest(resp.body)]
    ELSE NoError

\* What Call returns after its loop, from the response it left the loop with.
CallResult(resp, dest) ==
    IF resp.status >= 400
    THEN DecodeFirebaseError(resp.body)
    ELSE IF dest /\ ContentLengthNonZero(resp) /\ DecodeDest(resp.body) # NilError
    THEN [kind |-> "error", msg |-> DecodeDest(resp.body)]
    ELSE NoError

\* The outcome of one call of doFirebaseRequest: client.Do failed, or it gave
\* a response with a status of 400 or above, or one with a status below 400.
Outcome(r) ==
    IF r.err # NilError THEN "transport"
    ELSE IF r.status >= 400 THEN "status"
    ELSE "ok"

NoAttempts == [transport |-> 0, status |-> 0, ok |-> 0]

Counted(outcome) == [attempts EXCEPT ![outcome] = @ + 1]

Attempts == attempts.transport + attempts.status + attempts.ok

\* CallAttempt with a retry on a status of 400 or above that leaves retries
\* alone (the attempts are cut off once they exceed the budget).
CallAttemptStatusUnbudgeted ==
    /\ callPc = "request"
    /\ Attempts <= Retries + 1
    /\ \E r \in CallResponses :
         /\ callResp' = r
         /\ attempts' = Counted(Outcome(r))
         /\ respCloses' = IF r.err # NilError THEN respCloses
                          ELSE IF r.status >= 400 /\ retries > 0
                          THEN Append(respCloses, 1)
                          ELSE Append(respCloses, 0)
         /\ IF r.err # NilError /\ retries = 0
            THEN /\ callRet' = [kind |-> "error", msg |-> r.err]
                 /\ callPc' = "returned"
                 /\ UNCHANGED retries
            ELSE IF r.err # NilError
            THEN /\ retries' = retries - 1
                 /\ UNCHANGED <<callPc, callRet>>
            ELSE IF r.status >= 400 /\ retries > 0
            THEN /\ retries' = retries
                 /\ UNCHANGED <<callPc, callRet>>
            ELSE /\ callPc' = "finish"
                 /\ UNCHANGED <<retries, callRet>>
    /\ UNCHANGED <<callDest, queryVars, envVars, openVars, scanVars, conn, stop,
                   wdPc, bodyCloses, wire, firstLine, rPc, rPend, rawSent, rawRecv,
                   rawCloses, unmarshaller, wPc, wPend, outSent, outRecv,
                   outCloses, panicked, stopLate, readErr, umCalls>>

\* CallAttempt without the response.Body.Close() before the retry on a status
\* of 400 or above.
CallAttemptLeaksBody ==
    /\ callPc = "request"
    /\ \E r \in CallResponses :
         /\ callResp' = r
         /\ attempts' = Counted(Outcome(r))
         /\ respCloses' = IF r.err # NilError THEN respCloses
                          ELSE IF r.status >= 400 /\ retries > 0
                          THEN Append(respCloses, 0)
                          ELSE Append(respCloses, 0)
         /\ IF r.err # NilError /\ retries = 0
            THEN /\ callRet' = [kind |-> "error", msg |-> r.err]
                 /\ callPc' = "returned"
                 /\ UNCHANGED retries
            ELSE IF r.err # NilError
            THEN /\ retries' = retries - 1
                 /\ UNCHANGED <<callPc, callRet>>
            ELSE IF r.status >= 400 /\ retries > 0
            THEN /\ retries' = retries - 1
                 /\ UNCHANGED <<callPc, callRet>>
            ELSE /\ callPc' = "finish"
                 /\ UNCHANGED <<retries, callRet>>
    /\ UNCHANGED <<callDest, queryVars, envVars, openVars, scanVars, conn, stop,
                   wdPc, bodyCloses, wire, firstLine, rPc, rPend, rawSent, rawRecv,
                   rawCloses, unmarshaller, wPc, wPend, outSent, outRecv,
                   outCloses, panicked, stopLate, readErr, umCalls>>

\* One iteration of Call's loop: the request, and the return, the retry (with
\* response.Body.Close() when there is a response) or the break that follows
\* it.
CallAttempt ==
    /\ callPc = "request"
    /\ \E r \in CallResponses :
         /\ callResp' = r
         /\ attempts' = Counted(Outcome(r))
         /\ respCloses' = IF r.err # NilError THEN respCloses
                          ELSE IF r.status >= 400 /\ retries > 0
                          THEN Append(respCloses, 1)
                          ELSE Append(respCloses, 0)
         /\ IF r.err # NilError /\ retries = 0
            THEN /\ callRet' = [kind |-> "error", msg |-> r.err]
                 /\ callPc' = "returned"
                 /\ UNCHANGED retries
            ELSE IF r.err # NilError
            THEN /\ retries' = retries - 1
                 /\ UNCHANGED <<callPc, callRet>>
            ELSE IF r.status >= 400 /\ retries > 0
            THEN /\ retries' = retries - 1
                 /\ UNCHANGED <<callPc, callRet>>
            ELSE /\ callPc' = "finish"
                 /\ UNCHANGED <<retries, callRet>>
    /\ UNCHANGED <<callDest, queryVars, envVars, openVars, scanVars, conn, stop,
                   wdPc, bodyCloses, wire, firstLine, rPc, rPend, rawSent, rawRecv,
                   rawCloses, unmarshaller, wPc, wPend, outSent, outRecv,
                   outCloses, panicked, stopLate, readErr, umCalls>>

\* The rest of Call after the loop, the deferred response.Body.Close()
\* included.
CallFinish ==
    /\ callPc = "finish"
    /\ callRet' = CallResult(callResp, callDest)
    /\ respCloses' = [respCloses EXCEPT ![Len(respCloses)] = @ + 1]
    /\ callPc' = "returned"
    /\ UNCHANGED <<retries, callResp, callDest, attempts, queryVars, envVars,
                   openVars, scanVars, conn, stop, wdPc, bodyCloses, wire,
                   firstLine, rPc, rPend, rawSent, rawRecv, rawCloses,
                   unmarshaller, wPc, wPend, outSent, outRecv, outCloses,
                   panicked, stopLate, readErr, umCalls>>

---------------------------------------------------------------------------
(* The clients and the query builders *)

ParamKeys ==
    {"orderBy", "equalTo", "startAt", "endAt", "limitToFirst", "limitToLast",
     "shallow"}

\* A key the map does not hold.
Absent == <<>>

\* A Go value passed to a query builder.
StringValue(str) == [t |-> "string", s |-> str, n |-> 0, b |-> FALSE]
IntValue(num) == [t |-> "int", s |-> "", n |-> num, b |-> FALSE]
BoolValue(bool) == [t |-> "bool", s |-> "", n |-> 0, b |-> bool]

Digits == <<"0", "1", "2", "3", "4", "5", "6", "7", "8", "9">>

\* The decimal text of a natural number.
RECURSIVE Itoa(_)
Itoa(num) ==
    IF num < 10 THEN <<Digits[num + 1]>>
    ELSE Itoa(num \div 10) \o <<Digits[(num % 10) + 1]>>

\* A marshalling that writes a string without its quotes.
JsonMarshalUnquoted(value) ==
    IF value.t = "string" THEN <<value.s>>
    ELSE IF value.t = "bool" THEN (IF value.b THEN <<"true">> ELSE <<"false">>)
    ELSE Itoa(value.n)

\* json.Marshal(value) as a string, for a string without characters to
\* escape, a boolean and a natural number.
JsonMarshal(value) ==
    IF value.t = "string" THEN <<"\"", value.s, "\"">>
    ELSE IF value.t = "bool" THEN (IF value.b THEN <<"true">> ELSE <<"false">>)
    ELSE Itoa(value.n)

\* c.newParamMap(key, value): a copy of the receiver's map with the key set.
newParamMap(c, key, value) ==
    [k \in ParamKeys |-> IF k = key THEN JsonMarshal(value) ELSE maps[c.params][k]]

\* The client record; receiver, op, arg and born are history: the index of
\* the receiver it was made from, the builder and its argument, and the
\* params it was made with.
Client(order, url, auth, params, receiver, op, arg, born) ==
    [Order |-> order, url |-> url, auth |-> auth, params |-> params,
     receiver |-> receiver, op |-> op, arg |-> arg, born |-> born]

\* c.clientWithNewParam(key, value) on clients[i], with the Order the
\* builder leaves in the new client.
clientWithNewParam(i, op, key, value, order) ==
    /\ Len(clients) < MaxClients
    /\ LET c == clients[i]
           m == newParamMap(c, key, value)
       IN  /\ maps' = Append(maps, m)
           /\ clients' = Append(clients,
                  Client(order, c.url, c.auth, Len(maps) + 1, i, op, value, m))
    /\ UNCHANGED <<callVars, envVars, openVars, scanVars, conn, stop, wdPc,
                   bodyCloses, wire, firstLine, rPc, rPend, rawSent, rawRecv,
                   rawCloses, unmarshaller, wPc, wPend, outSent, outRecv,
                   outCloses, panicked, stopLate, readErr, umCalls>>

OrderBy ==
    \E i \in 1..Len(clients) :
        clientWithNewParam(i, "OrderBy", "orderBy", StringValue("field"), "field")

EqualTo ==
    \E i \in 1..Len(clients), v \in {BoolValue(TRUE), StringValue("a")} :
        clientWithNewParam(i, "EqualTo", "equalTo", v, "")

StartAt ==
    \E i \in 1..Len(clients) :
        clientWithNewParam(i, "StartAt", "startAt", IntValue(0), "")

EndAt ==
    \E i \in 1..Len(clients) :
        clientWithNewParam(i, "EndAt", "endAt", IntValue(5), "")

LimitToFirst ==
    \E i \in 1..Len(clients) :
        clientWithNewParam(i, "LimitToFirst", "limitToFirst", IntValue(5), "")

LimitToLast ==
    \E i \in 1..Len(clients) :
        clientWithNewParam(i, "LimitToLast", "limitToLast", IntValue(10), "")

\* A Shallow that sets the key in the receiver's own map.
ShallowInPlace ==
    /\ Len(clients) < MaxClients
    /\ \E i \in 1..Len(clients) :
         LET c == clients[i]
             m == [maps[c.params] EXCEPT !["shallow"] = <<"true">>]
         IN  /\ maps' = [maps EXCEPT ![c.params] = m]
             /\ clients' = Append(clients,
                    Client("", c.url, c.auth, c.params, i, "Shallow",
                           BoolValue(TRUE), m))
    /\ UNCHANGED <<callVars, envVars, openVars, scanVars, conn, stop, wdPc,
                   bodyCloses, wire, firstLine, rPc, rPend, rawSent, rawRecv,
                   rawCloses, unmarshaller, wPc, wPend, outSent, outRecv,
                   outCloses, panicked, stopLate, readErr, umCalls>>

\* c.Shallow(): a copy of the receiver's map with "shallow" set to "true".
Shallow ==
    /\ Len(clients) < MaxClients
    /\ \E i \in 1..Len(clients) :
         LET c == clients[i]
             m == [maps[c.params] EXCEPT !["shallow"] = <<"true">>]
         IN  /\ maps' = Append(maps, m)
             /\ clients' = Append(clients,
                    Client("", c.url, c.auth, Len(maps) + 1, i, "Shallow",
                           BoolValue(TRUE), m))
    /\ UNCHANGED <<callVars, envVars, openVars, scanVars, conn, stop, wdPc,
                   bodyCloses, wire, firstLine, rPc, rPend, rawSent, rawRecv,
                   rawCloses, unmarshaller, wPc, wPend, outSent, outRecv,
                   outCloses, panicked, stopLate, readErr, umCalls>>

\* c.Child(path): the url extended, and the receiver's own map.
Child ==
    /\ Len(clients) < MaxClients
    /\ \E i \in 1..Len(clients) :
         LET c == clients[i]
         IN  clients' = Append(clients,
                 Client("", c.url \o <<"/", "child">>, c.auth, c.params, i,
                        "Child", StringValue("child"), maps[c.params]))
    /\ UNCHANGED <<maps, callVars, envVars, openVars, scanVars, conn, stop, wdPc,
                   bodyCloses, wire, firstLine, rPc, rPend, rawSent, rawRecv,
                   rawCloses, unmarshaller, wPc, wPend, outSent, outRecv,
                   outCloses, panicked, stopLate, readErr, umCalls>>

---------------------------------------------------------------------------
(* Timeouts and tunables from the environment *)

\* Strings of the environment are sequences of one-character tokens.
EnvNames == {"FIREBASE_TIMEOUT_TEST"}

EnvValues ==
    {<<>>, <<"5", "m", "7", "s">>, <<"1", "0", "s">>, <<"1", "0">>, <<"0">>,
     <<"-", "3">>, <<"+", "7">>, <<"5", "m", "7">>, <<"z", "z", "z", "z">>}

\* os.Getenv(name): the value, "" when the variable is not set.
Getenv(name) == IF env[name].set THEN env[name].value ELSE <<>>

IsDigit(c) == \E d \in 1..Len(Digits) : Digits[d] = c

DigitValue(c) == (CHOOSE d \in 1..Len(Digits) : Digits[d] = c) - 1

\* The number of digits s starts with, and of characters that are none.
RECURSIVE LeadingDigits(_)
LeadingDigits(str) ==
    IF str # <<>> /\ IsDigit(str[1]) THEN 1 + LeadingDigits(Tail(str)) ELSE 0

RECURSIVE LeadingNonDigits(_)
LeadingNonDigits(str) ==
    IF str # <<>> /\ ~IsDigit(str[1]) THEN 1 + LeadingNonDigits(Tail(str)) ELSE 0

\* The value of a sequence of digits.
RECURSIVE Decimal(_)
Decimal(ds) ==
    IF ds = <<>> THEN 0
    ELSE 10 * Decimal(SubSeq(ds, 1, Len(ds) - 1)) + DigitValue(ds[Len(ds)])

ParseFailure == [ok |-> FALSE, value |-> 0]

\* strconv.Atoi: an optional sign and one or more digits.
Atoi(str) ==
    LET signed == str # <<>> /\ str[1] \in {"+", "-"}
        ds == IF signed THEN Tail(str) ELSE str
    IN  IF ds = <<>> \/ LeadingDigits(ds) # Len(ds)
        THEN ParseFailure
        ELSE [ok |-> TRUE,
              value |-> IF signed /\ str[1] = "-" THEN 0 - Decimal(ds) ELSE Decimal(ds)]

\* The units of time.ParseDuration from the millisecond up, in milliseconds
\* (durations are counted in milliseconds; "ns", "us" and fractions are
\* left out, no value of the environment here uses them).
DurationUnits == {<<"m", "s">>, <<"s">>, <<"m">>, <<"h">>}

UnitMillis(unit) ==
    CASE unit = <<"m", "s">> -> 1
      [] unit = <<"s">> -> 1000
      [] unit = <<"m">> -> 60000
      [] unit = <<"h">> -> 3600000

\* The loop of time.ParseDuration: a number and a unit, again and again.
RECURSIVE ParseTerms(_)
ParseTerms(str) ==
    IF str = <<>> THEN [ok |-> TRUE, value |-> 0]
    ELSE LET nd == LeadingDigits(str)
             rest == SubSeq(str, nd + 1, Len(str))
             nu == LeadingNonDigits(rest)
             unit == SubSeq(rest, 1, nu)
         IN  IF nd = 0 \/ nu = 0 \/ unit \notin DurationUnits
             THEN ParseFailure
             ELSE LET more == ParseTerms(SubSeq(rest, nu + 1, Len(rest)))
                  IN  IF ~more.ok THEN ParseFailure
                      ELSE [ok |-> TRUE,
                            value |-> Decimal(SubSeq(str, 1, nd)) * UnitMillis(unit)
                                          + more.value]

\* time.ParseDuration: an optional sign, then "0" or terms.
ParseDuration(str) ==
    LET signed == str # <<>> /\ str[1] \in {"+", "-"}
        terms == IF signed THEN Tail(str) ELSE str
        r == ParseTerms(terms)
    IN  IF terms = <<"0">> THEN [ok |-> TRUE, value |-> 0]
        ELSE IF terms = <<>> \/ ~r.ok THEN ParseFailure
        ELSE [ok |-> TRUE,
              value |-> IF signed /\ str[1] = "-" THEN 0 - r.value ELSE r.value]

parseTimeout(envVariableName, defaultTimeout) ==
    LET timeout == Getenv(envVariableName)
    IN  IF timeout # <<>> /\ ParseDuration(timeout).ok
        THEN ParseDuration(timeout).value
        ELSE defaultTimeout

\* parseTunable returning the zero value of a failed Atoi.
parseTunableNoDefault(envVariableName, defaultTunable) ==
    LET tunableStr == Getenv(envVariableName)
    IN  IF tunableStr # <<>> THEN Atoi(tunableStr).value ELSE defaultTunable

parseTunable(envVariableName, defaultTunable) ==
    LET tunableStr == Getenv(envVariableName)
    IN  IF tunableStr # <<>> /\ Atoi(tunableStr).ok
        THEN Atoi(tunableStr).value
        ELSE defaultTunable

\* The record of a call: the function, the variable as it was, the default
\* and the result.
ParsedCall(fn, name, default, result) ==
    [fn |-> fn, set |-> env[name].set, value |-> env[name].value,
     default |-> default, result |-> result]

NoCall == [fn |-> "none", set |-> FALSE, value |-> <<>>, default |-> 0, result |-> 0]

\* os.Setenv(name, value)
Setenv ==
    /\ \E name \in EnvNames, v \in EnvValues :
         env' = [env EXCEPT ![name] = [set |-> TRUE, value |-> v]]
    /\ UNCHANGED <<parsed, callVars, queryVars, openVars, scanVars, conn, stop, wdPc,
                   bodyCloses, wire, firstLine, rPc, rPend, rawSent, rawRecv,
                   rawCloses, unmarshaller, wPc, wPend, outSent, outRecv,
                   outCloses, panicked, stopLate, readErr, umCalls>>

\* os.Unsetenv(name)
Unsetenv ==
    /\ \E name \in EnvNames :
         /\ env[name].set
         /\ env' = [env EXCEPT ![name] = [set |-> FALSE, value |-> <<>>]]
    /\ UNCHANGED <<parsed, callVars, queryVars, openVars, scanVars, conn, stop, wdPc,
                   bodyCloses, wire, firstLine, rPc, rPend, rawSent, rawRecv,
                   rawCloses, unmarshaller, wPc, wPend, outSent, outRecv,
                   outCloses, panicked, stopLate, readErr, umCalls>>

\* A call of parseTimeout, with the default of the test (a second) or the
\* default stream timeout (none).
ParseTimeoutCall ==
    /\ \E name \in EnvNames, d \in {1000, 0} :
         parsed' = ParsedCall("parseTimeout", name, d, parseTimeout(name, d))
    /\ UNCHANGED <<env, callVars, queryVars, openVars, scanVars, conn, stop, wdPc,
                   bodyCloses, wire, firstLine, rPc, rPend, rawSent, rawRecv,
                   rawCloses, unmarshaller, wPc, wPend, outSent, outRecv,
                   outCloses, panicked, stopLate, readErr, umCalls>>

\* A call of parseTunable, with the default of the test or the default
\* number of idle connections.
ParseTunableCall ==
    /\ \E name \in EnvNames, d \in {1, 30} :
         parsed' = ParsedCall("parseTunable", name, d, parseTunable(name, d))
    /\ UNCHANGED <<env, callVars, queryVars, openVars, scanVars, conn, stop, wdPc,
                   bodyCloses, wire, firstLine, rPc, rPend, rawSent, rawRecv,
                   rawCloses, unmarshaller, wPc, wPend, outSent, outRecv,
                   outCloses, panicked, stopLate, readErr, umCalls>>

---------------------------------------------------------------------------
(* The parts of the library a specification leaves out are idle. *)

CallIdle ==
    /\ callPc = "idle"
    /\ retries = 0
    /\ callResp = [err |-> NilError, status |-> 0, body |-> BodyEmpty, chunked |-> FALSE]
    /\ callDest = FALSE
    /\ callRet = NoError
    /\ attempts = NoAttempts
    /\ respCloses = <<>>

QueryIdle ==
    /\ maps = <<>>
    /\ clients = <<>>

EnvIdle ==
    /\ env = [name \in EnvNames |-> [set |-> FALSE, value |-> <<>>]]
    /\ parsed = NoCall

---------------------------------------------------------------------------
(* The specification: the state once Watch has returned its channel. *)

Init ==
    /\ conn = "open"
    /\ stop = "idle"
    /\ wdPc = "wait"
    /\ bodyCloses = 0
    /\ wire = <<>>
    /\ firstLine = EmptyString
    /\ rPc = "read"
    /\ rPend = NoEvent
    /\ rawSent = <<>>
    /\ rawRecv = 0
    /\ rawCloses = 0
    /\ unmarshaller \in Unmarshallers
    /\ wPc = "recv"
    /\ wPend = NoEvent
    /\ outSent = <<>>
    /\ outRecv = 0
    /\ outCloses = 0
    /\ panicked = FALSE
    /\ stopLate = FALSE
    /\ readErr = NilError
    /\ umCalls = <<>>
    /\ response = [err |-> NilError, status |-> 200]
    /\ returned = [done |-> TRUE, channel |-> TRUE, err |-> NilError]
    /\ pairs = <<>>
    /\ body = <<>>
    /\ lineBuf = EmptyString
    /\ requests = 1
    /\ CallIdle
    /\ QueryIdle
    /\ EnvIdle

Next ==
    \/ ReadLine
    \/ SendRaw
    \/ ReadEnd
    \/ SendClose
    \/ Watchdog
    \/ WatchRecv
    \/ WatchSend
    \/ WatchRangeEnd
    \/ SignalStop
    \/ ServerClose
    \/ ConnReset
    \/ ConsumerRecv

Spec == Init /\ [][Next]_vars

\* The goroutines are scheduled fairly: one that can take a step takes it.
\* The server need not send (ReadLine), the caller need not signal stop, and
\* the connection need not end; the caller keeps receiving (ConsumerRecv).
FairSpec ==
    /\ Spec
    /\ WF_vars(SendRaw)
    /\ WF_vars(ReadEnd)
    /\ WF_vars(SendClose)
    /\ WF_vars(Watchdog)
    /\ WF_vars(WatchRecv)
    /\ WF_vars(WatchSend)
    /\ WF_vars(WatchRangeEnd)
    /\ WF_vars(ConsumerRecv)

\* The specification from the call of Watch on.
OpenInit ==
    /\ conn = "idle"
    /\ stop = "idle"
    /\ wdPc = "idle"
    /\ bodyCloses = 0
    /\ wire = <<>>
    /\ firstLine = EmptyString
    /\ rPc = "idle"
    /\ rPend = NoEvent
    /\ rawSent = <<>>
    /\ rawRecv = 0
    /\ rawCloses = 0
    /\ unmarshaller \in Unmarshallers
    /\ wPc = "idle"
    /\ wPend = NoEvent
    /\ outSent = <<>>
    /\ outRecv = 0
    /\ outCloses = 0
    /\ panicked = FALSE
    /\ stopLate = FALSE
    /\ readErr = NilError
    /\ umCalls = <<>>
    /\ response = [err |-> NilError, status |-> 0]
    /\ returned = [done |-> FALSE, channel |-> FALSE, err |-> NilError]
    /\ pairs = <<>>
    /\ body = <<>>
    /\ lineBuf = EmptyString
    /\ requests = 0
    /\ CallIdle
    /\ QueryIdle
    /\ EnvIdle

OpenNext == WatchCall \/ Next

OpenSpec == OpenInit /\ [][OpenNext]_vars

\* The specification of Stream called on a body of event/data pairs that is
\* read to its end, with the caller receiving from Stream's channel.
ScanInit ==
    /\ conn = "buffered"
    /\ stop = "idle"
    /\ wdPc = "wait"
    /\ bodyCloses = 0
    /\ wire = <<>>
    /\ firstLine = EmptyString
    /\ rPc = "read"
    /\ rPend = NoEvent
    /\ rawSent = <<>>
    /\ rawRecv = 0
    /\ rawCloses = 0
    /\ unmarshaller = "nil"
    /\ wPc = "idle"
    /\ wPend = NoEvent
    /\ outSent = <<>>
    /\ outRecv = 0
    /\ outCloses = 0
    /\ panicked = FALSE
    /\ stopLate = FALSE
    /\ readErr = NilError
    /\ umCalls = <<>>
    /\ response = [err |-> NilError, status |-> 200]
    /\ returned = [done |-> TRUE, channel |-> TRUE, err |-> NilError]
    /\ pairs \in PairSeqs
    /\ body = BodyOf(pairs)
    /\ lineBuf = EmptyString
    /\ requests = 1
    /\ CallIdle
    /\ QueryIdle
    /\ EnvIdle

ScanNext ==
    \/ ScanReadByte
    \/ ScanReadEnd
    \/ SendRaw
    \/ SendClose
    \/ RawConsumerRecv

ScanSpec == ScanInit /\ [][ScanNext]_vars

\* The state in which Stream's reader goroutine starts on a body it will
\* read to its end, but for the body and for Watch's goroutine.
ReaderStart ==
    /\ conn = "buffered"
    /\ stop = "idle"
    /\ wdPc = "wait"
    /\ bodyCloses = 0
    /\ wire = <<>>
    /\ firstLine = EmptyString
    /\ rPc = "read"
    /\ rPend = NoEvent
    /\ rawSent = <<>>
    /\ rawRecv = 0
    /\ rawCloses = 0
    /\ unmarshaller = "nil"
    /\ wPend = NoEvent
    /\ outSent = <<>>
    /\ outRecv = 0
    /\ outCloses = 0
    /\ panicked = FALSE
    /\ stopLate = FALSE
    /\ readErr = NilError
    /\ umCalls = <<>>
    /\ response = [err |-> NilError, status |-> 200]
    /\ returned = [done |-> TRUE, channel |-> TRUE, err |-> NilError]
    /\ lineBuf = EmptyString
    /\ requests = 1
    /\ CallIdle
    /\ QueryIdle
    /\ EnvIdle

\* The lines of a body that need not be well formed: blank, an event line,
\* a data line, and lines holding a prefix after other text.
Lines ==
    {EmptyString, EventLine("put"), DataLine(JsonNull),
     <<"x", EventPrefix, "y">>, <<"x", DataPrefix>>}

LineSeqs == UNION {[1..n -> Lines] : n \in 0..MaxBodyLines}

\* The bytes of the body made of the given lines, each ended by a newline.
RECURSIVE BytesOf(_)
BytesOf(ls) ==
    IF ls = <<>> THEN <<>> ELSE ls[1] \o <<Newline>> \o BytesOf(Tail(ls))

\* The specification of Stream called on a body of arbitrary lines.
LinesInit ==
    /\ ReaderStart
    /\ wPc = "idle"
    /\ pairs = <<>>
    /\ body \in {BytesOf(ls) : ls \in LineSeqs}

LinesSpec == LinesInit /\ [][ScanNext]_vars

\* The fields of the frames of a stream that is cut short.
ShortFields == {<<"h", "i">>, <<>>}

\* The bodies a connection closed by the server at any byte leaves of s.
Prefixes(s) == {SubSeq(s, 1, n) : n \in 0..Len(s)}

\* The specification of Stream called on a stream of event/data pairs that
\* ends at any byte, inside a frame or between two.
CutInit ==
    /\ ReaderStart
    /\ wPc = "idle"
    /\ pairs \in UNION {[1..n -> ShortFields \X ShortFields] : n \in 0..MaxPairs}
    /\ body \in Prefixes(BodyOf(pairs))

CutSpec == CutInit /\ [][ScanNext]_vars

\* The frames of a stream that Watch decodes or does not know.
PipePairs ==
    {<<<<"put">>, <<JsonEnvelope>>>>,
     <<<<"rules_debug">>, <<JsonEnvelope>>>>,
     <<<<"rules_debug">>, <<JsonNull>>>>}

\* The specification of Watch on a body of such frames read to its end.
PipeInit ==
    /\ ReaderStart
    /\ wPc = "recv"
    /\ pairs \in UNION {[1..n -> PipePairs] : n \in 0..MaxPairs}
    /\ body = BodyOf(pairs)

PipeNext ==
    \/ ScanReadByte
    \/ ScanReadEnd
    \/ SendRaw
    \/ SendClose
    \/ WatchRecv
    \/ WatchSend
    \/ WatchRangeEnd
    \/ ConsumerRecv

PipeSpec == PipeInit /\ [][PipeNext]_vars

\* No stream is open.
StreamIdle ==
    /\ conn = "idle"
    /\ stop = "idle"
    /\ wdPc = "idle"
    /\ bodyCloses = 0
    /\ wire = <<>>
    /\ firstLine = EmptyString
    /\ rPc = "idle"
    /\ rPend = NoEvent
    /\ rawSent = <<>>
    /\ rawRecv = 0
    /\ rawCloses = 0
    /\ unmarshaller = "nil"
    /\ wPc = "idle"
    /\ wPend = NoEvent
    /\ outSent = <<>>
    /\ outRecv = 0
    /\ outCloses = 0
    /\ panicked = FALSE
    /\ stopLate = FALSE
    /\ readErr = NilError
    /\ umCalls = <<>>
    /\ response = [err |-> NilError, status |-> 0]
    /\ returned = [done |-> FALSE, channel |-> FALSE, err |-> NilError]
    /\ pairs = <<>>
    /\ body = <<>>
    /\ lineBuf = EmptyString
    /\ requests = 0

\* The specification of one Call, from its entry.
CallInit ==
    /\ StreamIdle
    /\ QueryIdle
    /\ EnvIdle
    /\ callPc = "request"
    /\ retries = Retries
    /\ callResp = [err |-> NilError, status |-> 0, body |-> BodyEmpty, chunked |-> FALSE]
    /\ callDest \in BOOLEAN
    /\ callRet = NoError
    /\ attempts = NoAttempts
    /\ respCloses = <<>>

CallNext == CallAttempt \/ CallFinish

CallSpec == CallInit /\ [][CallNext]_vars

\* Call is sequential code, and each of its steps returns: the requests of
\* httpClient and the reads of the body are under the transport's timeouts.
CallFairSpec == CallSpec /\ WF_vars(CallNext)

\* The specification of the query builders, from a root client made by
\* NewClient.
QueryInit ==
    /\ StreamIdle
    /\ CallIdle
    /\ EnvIdle
    /\ maps = <<[k \in ParamKeys |-> Absent]>>
    /\ clients = <<Client("", <<"https://test.firebaseio.com">>, "secret", 1, 0,
                          "NewClient", StringValue(""), [k \in ParamKeys |-> Absent])>>

QueryNext ==
    \/ OrderBy
    \/ EqualTo
    \/ StartAt
    \/ EndAt
    \/ LimitToFirst
    \/ LimitToLast
    \/ Shallow
    \/ Child

QuerySpec == QueryInit /\ [][QueryNext]_vars

\* The specification of the tunables: the environment changes and the two
\* functions are called.
EnvInit ==
    /\ StreamIdle
    /\ CallIdle
    /\ QueryIdle
    /\ EnvIdle

EnvNext ==
    \/ Setenv
    \/ Unsetenv
    \/ ParseTimeoutCall
    \/ ParseTunableCall

EnvSpec == EnvInit /\ [][EnvNext]_vars

---------------------------------------------------------------------------
(* Properties *)

OutIdx == 1..Len(outSent)
RawIdx == 1..Len(rawSent)

\* C1: the channel Watch returns and the channel Stream returns are each
\* closed at most once, and no goroutine sends on (or closes) a closed
\* channel, on every exit path.
C1_ChannelsClosedAtMostOnce ==
    /\ rawCloses <= 1
    /\ outCloses <= 1
    /\ panicked = FALSE

\* Both goroutines have exited after a stop and after an auth_revoked frame.
C1_Witness ==
    /\ rPc = "done" /\ wPc = "done"
    /\ rawCloses = 1 /\ outCloses = 1 /\ bodyCloses = 1
    /\ \E i \in OutIdx : outSent[i].Error = ErrAuthRevoked

\* C2: once the reader goroutine has exited, exactly one closing RawEvent was
\* sent, it is the last event sent (after every frame event), and the channel
\* was closed with it; before that no closing event was sent and the channel
\* is open.
C2_OneClosingEventLast ==
    LET closing == {i \in RawIdx : rawSent[i].idx = 0}
    IN  /\ rPc = "done" => (closing = {Len(rawSent)} /\ rawCloses = 1)
        /\ rPc # "done" => (closing = {} /\ rawCloses = 0)

\* The reader has exited after two frames.
C2_Witness ==
    /\ rPc = "done"
    /\ Len(rawSent) = 3
    /\ rawSent[3].Error = NilError

\* C3: a cancel frame yields one "Permission Denied" event, the channel is
\* closed right after it, and no later frame is processed or delivered.
C3_CancelClosesChannel ==
    \A i \in OutIdx :
        outSent[i].Error = ErrPermissionDenied
            => /\ i = Len(outSent)
               /\ outCloses = 1
               /\ wPc = "done"

\* C4: an auth_revoked frame yields exactly one "Auth Token Revoked" event,
\* the channel is closed right after it, and Watch's goroutine handles no
\* later frame.
C4_AuthRevokedClosesChannel ==
    /\ \A i \in OutIdx :
          outSent[i].Error = ErrAuthRevoked
              => /\ i = Len(outSent)
                 /\ outSent[i].Event = <<"auth_revoked">>
                 /\ outCloses = 1
                 /\ wPc = "done"
    /\ \A k \in 1..rawRecv :
          (rawSent[k].Event = <<"auth_revoked">> /\ rawSent[k].Error = NilError)
              => /\ k = rawRecv
                 /\ \/ /\ wPc = "send"
                       /\ wPend.event.idx = rawSent[k].idx
                       /\ wPend.event.Error = ErrAuthRevoked
                    \/ /\ wPc = "done"
                       /\ Cardinality({i \in OutIdx : outSent[i].idx = rawSent[k].idx}) = 1
                       /\ outSent[Len(outSent)].idx = rawSent[k].idx
                       /\ outSent[Len(outSent)].Error = ErrAuthRevoked

\* The auth_revoked event was delivered, the channel is closed, and a later
\* frame waits on the events channel.
C4_Witness ==
    /\ outSent # <<>>
    /\ outSent[Len(outSent)].Error = ErrAuthRevoked
    /\ outCloses = 1
    /\ RawLen > 0
    /\ rawSent[Len(rawSent)].idx > outSent[Len(outSent)].idx

\* C5 as stated: an event with a non-nil Error carries no decoded content and
\* is the last event sent.
C5_ErrorEventIsLast ==
    \A i \in OutIdx :
        outSent[i].Error # NilError
            => /\ outSent[i].Path = EmptyPath
               /\ outSent[i].Resource = NilResource
               /\ i = Len(outSent)

\* C5 amended: an event with a non-nil Error carries no decoded content; when
\* the error is a connection error or "Auth Token Revoked" it is the last
\* event sent, and the channel is closed once Watch's goroutine has exited.
C5_ErrorEventUndecoded ==
    \A i \in OutIdx :
        outSent[i].Error # NilError
            => /\ outSent[i].Path = EmptyPath
               /\ outSent[i].Resource = NilResource
               /\ outSent[i].Error \in TransportErrors \cup {ErrAuthRevoked}
                    => /\ i = Len(outSent)
                       /\ wPc = "done" => outCloses = 1

\* An envelope error was delivered, then a decoded event, then the connection
\* error that ended the stream.
C5_Witness ==
    /\ Len(outSent) = 3
    /\ outSent[1].Error = ErrJSONSyntax
    /\ outSent[2].Resource # NilResource
    /\ outSent[3].Error \in TransportErrors
    /\ outCloses = 1

\* C6: a RawEvent with a connection error that Watch's goroutine receives is
\* sent on as it is (same Event, Data and Error, nothing decoded), exactly
\* once, as the last event, and the channel is closed when the goroutine exits.
C6_TransportErrorForwarded ==
    /\ \A i \in OutIdx :
          outSent[i].Error \in TransportErrors
              => /\ \E k \in 1..rawRecv :
                       /\ rawSent[k].idx = outSent[i].idx
                       /\ rawSent[k].Error = outSent[i].Error
                       /\ rawSent[k].Event = outSent[i].Event
                       /\ rawSent[k].Data = outSent[i].RawData
                 /\ outSent[i].Path = EmptyPath
                 /\ outSent[i].Resource = NilResource
                 /\ outSent[i].UnmarshallerError = NilError
                 /\ i = Len(outSent)
                 /\ wPc = "done" => outCloses = 1
    /\ \A k \in 1..rawRecv :
          rawSent[k].Error # NilError
              => \/ /\ wPc = "send"
                    /\ k = rawRecv
                    /\ wPend.fatal = FALSE
                    /\ wPend.event.Error = rawSent[k].Error
                    /\ wPend.event.Event = rawSent[k].Event
                    /\ wPend.event.RawData = rawSent[k].Data
                 \/ Cardinality({i \in OutIdx : outSent[i].Error = rawSent[k].Error
                                                /\ outSent[i].idx = rawSent[k].idx}) = 1

\* The connection error of a stopped stream was delivered after a frame and
\* the channel is closed.
C6_Witness ==
    /\ Len(outSent) >= 2
    /\ outSent[Len(outSent)].Error = ErrBodyClosed
    /\ outCloses = 1
    /\ wPc = "done"

\* C7: events are sent on both channels in the order of their frames on the
\* wire, each frame at most once, and each event is the frame at its place
\* on the wire (nothing merged).
C7_WireOrder ==
    /\ \A i \in RawIdx : \A j \in RawIdx :
          i < j => /\ rawSent[i].idx > 0
                   /\ rawSent[j].idx = 0 \/ rawSent[i].idx < rawSent[j].idx
    /\ \A i \in OutIdx : \A j \in OutIdx :
          i < j => /\ outSent[i].idx > 0
                   /\ outSent[j].idx = 0 \/ outSent[i].idx < outSent[j].idx
    /\ \A i \in RawIdx :
          rawSent[i].idx > 0
              => /\ rawSent[i].idx >= 2
                 /\ wire[rawSent[i].idx - 1] = <<EventPrefix>> \o rawSent[i].Event
                 /\ wire[rawSent[i].idx] = <<DataPrefix>> \o rawSent[i].Data
    /\ \A i \in OutIdx :
          outSent[i].idx > 0
              => /\ outSent[i].idx >= 2
                 /\ wire[outSent[i].idx - 1] = <<EventPrefix>> \o outSent[i].Event
                 /\ wire[outSent[i].idx] = <<DataPrefix>> \o outSent[i].RawData

\* Two frames were sent, and received by the caller, in wire order.
C7_Witness ==
    /\ Len(outSent) >= 2
    /\ outRecv >= 2
    /\ outSent[1].idx = 2
    /\ outSent[2].idx = 4

\* C8: once stop is signalled while the reader is at its read of the body,
\* the channel Watch returned is eventually closed, and nothing panics.
C8_StopClosesChannel ==
    /\ (stop # "idle" /\ rPc = "read") ~> (outCloses = 1)
    /\ [](panicked = FALSE)

\* The stop unblocked the reader: the closed-body error came through and the
\* channel is closed.
C8_Witness ==
    /\ stop # "idle"
    /\ outSent # <<>>
    /\ outSent[Len(outSent)].Error = ErrBodyClosed
    /\ outCloses = 1

\* C9: once the server has closed the connection, the channel Watch returned
\* is eventually closed, with or without a stop.
C9_ServerCloseClosesChannel == (conn = "eof") ~> (outCloses = 1)

\* The stream ended with a clean EOF, the caller never signalled stop, and
\* the channel is closed.
C9_Witness ==
    /\ conn = "eof"
    /\ stop = "idle"
    /\ rPc = "done"
    /\ rawSent[Len(rawSent)].Error = NilError
    /\ wPc = "done"
    /\ outCloses = 1

\* C10: a stop signalled after Watch's goroutine has returned (after a server
\* EOF or after auth_revoked) changes nothing the caller can see: no event is
\* sent, no channel is closed a second time, nothing panics.
C10_LateStopIsNoOp ==
    /\ [](stopLate => (outCloses = 1 /\ rawCloses <= 1 /\ panicked = FALSE))
    /\ [][stopLate => (outSent' = outSent /\ outCloses' = outCloses)]_vars

\* A late stop reached the watchdog, which closed the body, after a clean EOF.
C10_Witness ==
    /\ stopLate
    /\ bodyCloses = 1
    /\ rPc = "done"
    /\ rawSent[Len(rawSent)].Error = NilError

\* C12: a keep-alive frame never produces an event on Watch's output channel,
\* wherever it occurs: no event sent or about to be sent has the type
\* keep-alive or comes from a keep-alive frame; and it does not stop the
\* processing: right after receiving one, Watch's goroutine is receiving again.
C12_KeepAliveSilent ==
    /\ \A i \in OutIdx : outSent[i].Event # <<"keep-alive">>
    /\ wPc = "send" => wPend.event.Event # <<"keep-alive">>
    /\ \A k \in 1..rawRecv :
         rawSent[k].Event = <<"keep-alive">>
             => /\ \A i \in OutIdx : outSent[i].idx # rawSent[k].idx
                /\ k = rawRecv => wPc = "recv"

\* A keep-alive frame between two put frames was received, and the put frame
\* after it was delivered.
C12_Witness ==
    /\ rawRecv >= 2
    /\ rawSent[1].Event = <<"keep-alive">>
    /\ rawSent[2].Event = <<"put">>
    /\ Len(outSent) = 1
    /\ outSent[1].idx = rawSent[2].idx
    /\ outSent[1].Resource # NilResource

\* The lines on the wire are N keep-alive frames and nothing else.
KeepAliveOnly ==
    /\ Len(wire) % 2 = 0
    /\ \A i \in 1..Len(wire) :
         wire[i] = IF i % 2 = 1 THEN EventLine("keep-alive") ELSE DataLine(JsonNull)

\* C13 as stated: for a stream of N keep-alive frames followed by a clean EOF,
\* exactly one event, the closing event without error, is emitted on Watch's
\* output channel before it closes.
C13_OneEventOnOutput ==
    (KeepAliveOnly /\ readErr = ErrEOF /\ outCloses = 1)
        => /\ Len(outSent) = 1
           /\ outSent[1].idx = 0
           /\ outSent[1].Error = NilError

\* C13: for a stream of N keep-alive frames followed by a clean EOF, no event
\* is emitted on Watch's output channel before it closes: the closing event
\* without error is the last of the N+1 events of Stream's channel, and
\* Watch's loop forwards none of them.
C13_NoEventOnOutput ==
    (KeepAliveOnly /\ readErr = ErrEOF)
        => /\ outSent = <<>>
           /\ wPc # "send"
           /\ rPc = "done"
                => /\ Len(rawSent) = (Len(wire) \div 2) + 1
                   /\ rawSent[Len(rawSent)].Error = NilError
                   /\ rawSent[Len(rawSent)].idx = 0

\* Two keep-alive frames, a clean EOF, and the output channel closed empty.
C13_Witness ==
    /\ KeepAliveOnly
    /\ Len(wire) = 4
    /\ readErr = ErrEOF
    /\ rawRecv = 3
    /\ outCloses = 1
    /\ outSent = <<>>

\* C14: when the reader's loop ended on a clean EOF with no partial frame
\* pending, the last event sent on Stream's channel is the closing RawEvent
\* with a nil Error (and empty Event and Data).
C14_CleanEOFClosingEvent ==
    (rPc = "done" /\ readErr = ErrEOF /\ firstLine = EmptyString)
        => /\ rawSent # <<>>
           /\ rawSent[Len(rawSent)]
                = RawEvent(EmptyString, EmptyString, NilError, 0)

\* The server closed the connection after one whole frame, and the reader
\* has exited.
C14_Witness ==
    /\ rPc = "done"
    /\ readErr = ErrEOF
    /\ firstLine = EmptyString
    /\ Len(wire) = 2
    /\ Len(rawSent) = 2
    /\ rawSent[2].Error = NilError

\* C15: a read failure other than EOF (a reset connection, or the body closed
\* by the watchdog) ends the reader's loop, and the closing RawEvent carries
\* exactly that error.
C15_ReadErrorInClosingEvent ==
    readErr \in TransportErrors
        => /\ rPc \in {"sendClose", "done"}
           /\ rPc = "sendClose"
                => rPend = RawEvent(EmptyString, EmptyString, readErr, 0)
           /\ rPc = "done"
                => rawSent[Len(rawSent)]
                     = RawEvent(EmptyString, EmptyString, readErr, 0)

\* The watchdog closed the body under the reader, and the closing event with
\* that error was sent after a frame event.
C15_Witness ==
    /\ rPc = "done"
    /\ readErr = ErrBodyClosed
    /\ conn = "open"
    /\ Len(rawSent) = 2
    /\ rawSent[2].Error = ErrBodyClosed

\* The events Watch's goroutine has sent or is about to send.
Delivered == {outSent[i] : i \in OutIdx}
                 \cup (IF wPc = "send" THEN {wPend.event} ELSE {})

\* The events handlePatchPut made.
PatchPutDelivered ==
    {e \in Delivered : e.idx > 0 /\ e.Event \in {<<"patch">>, <<"put">>}}

\* The event was delivered and is the last one Watch's goroutine received.
LastHandled(e) ==
    /\ wPc # "send"
    /\ rawRecv > 0
    /\ rawSent[rawRecv].idx = e.idx

\* C17: a put or patch frame whose data is not a valid envelope yields one
\* StreamEvent with the decode error in Error, an empty Path and a nil
\* Resource, without a call of the unmarshaller; the channel stays open and
\* Watch's goroutine goes on to the next frame.
C17_BadEnvelopeEvent ==
    \A e \in PatchPutDelivered :
        e.RawData = <<JsonBad>>
            => /\ e.Error = ErrJSONSyntax
               /\ e.Path = EmptyPath
               /\ e.Resource = NilResource
               /\ e.UnmarshallerError = NilError
               /\ \A c \in 1..Len(umCalls) : umCalls[c].idx # e.idx
               /\ Cardinality({i \in OutIdx : outSent[i].idx = e.idx}) <= 1
               /\ wPc = "send" /\ wPend.event = e => ~wPend.fatal
               /\ LastHandled(e) => (wPc = "recv" /\ outCloses = 0)

\* A put frame with bad data was delivered with its decode error, and the
\* patch frame after it was delivered decoded.
C17_Witness ==
    /\ Len(outSent) = 2
    /\ outSent[1].RawData = <<JsonBad>>
    /\ outSent[1].Error = ErrJSONSyntax
    /\ outSent[2].Event = <<"patch">>
    /\ outSent[2].Resource # NilResource
    /\ outCloses = 0

\* C18: when the envelope decodes and the unmarshaller returns an error, the
\* event has that error in UnmarshallerError, a nil Resource (whatever object
\* the unmarshaller returned), the envelope's Path, the frame's data in
\* RawData and a nil Error; the stream continues.
C18_UnmarshallerErrorEvent ==
    \A e \in PatchPutDelivered :
        e.RawData = <<JsonEnvelopeArray>>
            => /\ e.UnmarshallerError = ErrJSONType
               /\ e.Resource = NilResource
               /\ e.Path = "1/2/3"
               /\ e.RawData = StringsReplace(wire[e.idx], DataPrefix)
               /\ e.Error = NilError
               /\ \E c \in 1..Len(umCalls) :
                    /\ umCalls[c].idx = e.idx
                    /\ umCalls[c].path = "1/2/3"
                    /\ umCalls[c].data = "[1]"
               /\ wPc = "send" /\ wPend.event = e => ~wPend.fatal
               /\ LastHandled(e) => (wPc = "recv" /\ outCloses = 0)

\* The unmarshaller failed on the first frame, and the frame after it was
\* delivered decoded.
C18_Witness ==
    /\ Len(outSent) = 2
    /\ outSent[1].RawData = <<JsonEnvelopeArray>>
    /\ outSent[1].UnmarshallerError = ErrJSONType
    /\ outSent[2].Resource # NilResource
    /\ outCloses = 0

\* C19: for a put or patch frame with a valid envelope and a successful
\* unmarshaller, the event has the envelope's path in Path, the
\* unmarshaller's result in Resource, the frame's data in RawData, and nil
\* Error and UnmarshallerError.
C19_DecodedEvent ==
    \A e \in PatchPutDelivered :
        e.RawData = <<JsonEnvelope>>
            => /\ e.Path = "1/2/3"
               /\ e.Resource = IF unmarshaller = "widget"
                                THEN "Widget{A:1}" ELSE "map[a:1]"
               /\ e.RawData = StringsReplace(wire[e.idx], DataPrefix)
               /\ e.Error = NilError
               /\ e.UnmarshallerError = NilError

\* A put frame and a patch frame were both delivered as Widgets.
C19_Witness ==
    /\ Len(outSent) = 2
    /\ outSent[1].Event = <<"put">>
    /\ outSent[2].Event = <<"patch">>
    /\ outSent[1].Resource = "Widget{A:1}"
    /\ outSent[2].Resource = "Widget{A:1}"
    /\ outSent[2].Path = "1/2/3"

\* The RawEvent a delivered event was made from.
RawOf(e) == CHOOSE r \in {rawSent[k] : k \in RawIdx} : r.idx = e.idx

\* C20: Watch called with a nil unmarshaller delivers the events it delivers
\* with the default unmarshaller: every event is the one the loop makes with
\* defaultUnmarshaller (a map for a valid envelope), every call is a call of
\* defaultUnmarshaller, and no nil function is called.
C20_NilUnmarshallerIsDefault ==
    unmarshaller = "nil"
        => /\ \A e \in Delivered : e = WatchHandle(RawOf(e), "default").event
           /\ \A e \in PatchPutDelivered :
                e.RawData = <<JsonEnvelope>> => e.Resource = "map[a:1]"
           /\ \A c \in 1..Len(umCalls) : umCalls[c].um = "default"
           /\ panicked = FALSE

\* Watch was called with a nil unmarshaller and delivered a map.
C20_Witness ==
    /\ unmarshaller = "nil"
    /\ Len(outSent) >= 1
    /\ outSent[1].Event = <<"put">>
    /\ outSent[1].Resource = "map[a:1]"
    /\ Len(umCalls) >= 1

ExpectedEvents ==
    [i \in 1..Len(pairs) |-> RawEvent(pairs[i][1], pairs[i][2], NilError, 2 * i)]

\* C16: for a body made only of newline-terminated "event: X" / "data: Y"
\* line pairs, Stream sends exactly one RawEvent{X, Y} per pair, in the order
\* of the body and whatever the length of the lines; the closing event
\* follows the last of them.
C16_OneEventPerPair ==
    /\ Len(rawSent) <= Len(pairs) + 1
    /\ \A i \in RawIdx : i <= Len(pairs) => rawSent[i] = ExpectedEvents[i]
    /\ rPc = "send" => rPend = ExpectedEvents[Len(rawSent) + 1]
    /\ rPc \in {"sendClose", "done"} => body = <<>>
    /\ rPc = "sendClose" => Len(rawSent) = Len(pairs)
    /\ rPc = "done"
         => rawSent = ExpectedEvents
                \o <<RawEvent(EmptyString, EmptyString, NilError, 0)>>

\* A body of two pairs, with a long line and a line holding the prefixes,
\* was read to its end.
C16_Witness ==
    /\ rPc = "done"
    /\ Len(pairs) = 2
    /\ pairs[1] = <<<<"hi">>, <<"l", "o", "n", "g", "!">>>>
    /\ pairs[2] = <<<<"x", EventPrefix, DataPrefix>>, <<>>>>
    /\ Len(rawSent) = 3
    /\ rawSent[1].Data = <<"l", "o", "n", "g", "!">>
    /\ rawSent[2].Event = <<"x", EventPrefix, DataPrefix>>

\* The line at position j of the wire is the data line of a put or patch frame.
IsPutPatchFrame(j) ==
    /\ j >= 2
    /\ wire[j] # EmptyString
    /\ wire[j][1] = DataPrefix
    /\ wire[j - 1] \in {EventLine("put"), EventLine("patch")}

\* No auth_revoked frame has ended Watch's goroutine.
NotRevoked == \A i \in OutIdx : outSent[i].Error # ErrAuthRevoked

\* C21: no frame is dropped silently. Every put or patch frame read from the
\* wire is held by the reader or was sent once on Stream's channel; once
\* Watch's goroutine has received it, it is held by that goroutine or was
\* sent once on the output channel, and not before; when the output channel
\* is closed at the end of the stream every such frame was sent on it. A
\* channel never holds more than its capacity: the sender waits.
C21_NoFrameDropped ==
    /\ RawLen <= ChanCap
    /\ OutLen <= ChanCap
    /\ \A j \in 1..Len(wire) :
         IsPutPatchFrame(j)
             => LET inRaw == {k \in RawIdx : rawSent[k].idx = j}
                    held == IF rPc = "send" /\ rPend.idx = j THEN 1 ELSE 0
                    out == {i \in OutIdx : outSent[i].idx = j}
                    wHeld == IF wPc = "send" /\ wPend.event.idx = j THEN 1 ELSE 0
                IN  /\ Cardinality(inRaw) + held = 1
                    /\ \A k \in inRaw :
                         IF k <= rawRecv
                         THEN Cardinality(out) + wHeld = 1
                         ELSE Cardinality(out) + wHeld = 0
                    /\ (outCloses = 1 /\ NotRevoked) => Cardinality(out) = 1

\* The output channel is full with the first frame, and Watch's goroutine
\* waits on its send holding the second one.
C21_Witness ==
    /\ Len(wire) = 4
    /\ IsPutPatchFrame(2)
    /\ IsPutPatchFrame(4)
    /\ OutLen = ChanCap
    /\ outSent[Len(outSent)].idx = 2
    /\ wPc = "send"
    /\ wPend.event.idx = 4

\* C22: on each termination path of a session the output channel and the
\* response body are closed, each exactly once: neither is closed twice, and
\* once Watch's goroutine has returned both have been or will be closed.
C22_SessionDestroyedOnce ==
    /\ [](outCloses <= 1 /\ bodyCloses <= 1)
    /\ (wPc = "done") ~> (outCloses = 1 /\ bodyCloses = 1)

\* C29: the response body is closed only by the watchdog goroutine, and at
\* most once: every step that closes it is the watchdog's step from its wait
\* to its end, it is the first close, and the reader and Watch's goroutine do
\* not move in it.
C29_OnlyWatchdogClosesBody ==
    [][bodyCloses' # bodyCloses
          => /\ wdPc = "wait"
             /\ wdPc' = "done"
             /\ bodyCloses = 0
             /\ bodyCloses' = 1
             /\ rPc' = rPc
             /\ wPc' = wPc]_vars

\* The body was closed once and all three goroutines have ended.
C29_Witness ==
    /\ bodyCloses = 1
    /\ wdPc = "done"
    /\ rPc = "done"
    /\ wPc = "done"
    /\ readErr = ErrEOF

\* C30: a Watch call issues exactly one streaming GET: one request has been
\* issued when Watch returns, and no step after its return issues another,
\* however the stream ends.
C30_OneRequestPerWatch ==
    /\ [](returned.done => requests = 1)
    /\ [][requests' # requests => ~returned.done]_vars

\* The stream has ended on a failed read after an auth_revoked frame, with
\* one request issued.
C30_Witness ==
    /\ requests = 1
    /\ rPc = "done"
    /\ wPc = "done"
    /\ readErr = ErrConnReset
    /\ ~NotRevoked

\* The lines of w that are not empty.
RECURSIVE NonBlank(_)
NonBlank(w) ==
    IF w = <<>> THEN <<>>
    ELSE IF w[1] = EmptyString THEN NonBlank(Tail(w))
    ELSE <<w[1]>> \o NonBlank(Tail(w))

\* The lines are "event: X" / "data: Y" pairs.
WellFormed(ls) ==
    /\ Len(ls) % 2 = 0
    /\ \A i \in 1..Len(ls) :
         ls[i][1] = IF i % 2 = 1 THEN EventPrefix ELSE DataPrefix

\* The (Event, Data) of the frame events sent on Stream's channel.
FramesSent ==
    [k \in {i \in RawIdx : rawSent[i].idx > 0} |-> <<rawSent[k].Event, rawSent[k].Data>>]

\* s without a leading p.
TrimPrefix(s, p) == IF s # <<>> /\ s[1] = p THEN Tail(s) ELSE s

\* C26: empty lines are insignificant to framing: when the body is a well
\* formed stream with empty lines inserted anywhere, the RawEvents sent are
\* those of the stream without the empty lines.
C26_BlankLinesInsignificant ==
    (rPc = "done" /\ WellFormed(NonBlank(wire)))
        => LET nb == NonBlank(wire)
           IN  FramesSent = [k \in 1..(Len(nb) \div 2) |->
                                <<Tail(nb[2 * k - 1]), Tail(nb[2 * k])>>]

\* C27: the Event and Data of a RawEvent are the first and second line of
\* its frame with only a leading "event: " / "data: " removed; the literals
\* elsewhere in a line are left intact.
C27_OnlyLeadingPrefixStripped ==
    \A k \in RawIdx :
        rawSent[k].idx > 0
            => /\ rawSent[k].Event = TrimPrefix(wire[rawSent[k].idx - 1], EventPrefix)
               /\ rawSent[k].Data = TrimPrefix(wire[rawSent[k].idx], DataPrefix)

KnownTypes ==
    {<<"put">>, <<"patch">>, <<"keep-alive">>, <<"cancel">>, <<"auth_revoked">>}

\* The frame events of an unknown type Watch's goroutine has received.
UnknownReceived ==
    {k \in 1..rawRecv : rawSent[k].idx > 0 /\ rawSent[k].Event \notin KnownTypes}

\* C28 as stated: a frame of an unknown event type is forwarded on Watch's
\* output channel as one event without decoding.
C28_UnknownTypeForwarded ==
    \A k \in UnknownReceived :
        LET e == [StreamEventOf(rawSent[k]) EXCEPT !.idx = rawSent[k].idx]
        IN  \/ wPc = "send" /\ wPend.event = e
            \/ Cardinality({i \in OutIdx : outSent[i] = e}) = 1

\* C28: a frame of an unknown event type produces no event on Watch's output
\* channel: Watch's goroutine drops it and goes on receiving.
C28_UnknownTypeDropped ==
    \A k \in UnknownReceived :
        /\ \A e \in Delivered : e.idx # rawSent[k].idx
        /\ k = rawRecv => wPc = "recv"

\* A frame of an unknown type was dropped and the put frame after it was
\* delivered; the output channel is closed.
C28_Witness ==
    /\ Len(pairs) = 2
    /\ pairs[1][1] = <<"rules_debug">>
    /\ pairs[2][1] = <<"put">>
    /\ rawRecv = 3
    /\ Len(outSent) = 1
    /\ outSent[1].idx = 4
    /\ outSent[1].Resource = "map[a:1]"
    /\ outCloses = 1

\* C23: Call returns nil only if the response it ended with has a status
\* below 400 and, when dest is non-nil and the body is not empty, the body
\* decoded into dest; a last response with a status of 400 or above yields a
\* non-nil FirebaseError whose Message is the "error" member of the body.
C23_CallError ==
    callPc = "returned"
        => /\ callRet = NoError
                => /\ callResp.err = NilError
                   /\ callResp.status < 400
                   /\ (callDest /\ callResp.body # BodyEmpty)
                        => callResp.body \in {JsonError, BodyObject}
           /\ (callResp.err = NilError /\ callResp.status >= 400)
                => /\ callRet.kind = "FirebaseError"
                   /\ callRet.msg = IF callResp.body = JsonError
                                    THEN "Permission denied" ELSE ""
                   /\ retries = 0

\* Call gave up after its ten retries on a 403 and returned Firebase's error.
C23_Witness ==
    /\ callPc = "returned"
    /\ retries = 0
    /\ callResp.status = 403
    /\ callRet = [kind |-> "FirebaseError", msg |-> "Permission denied"]

\* The key a builder sets and the text it sets it to, as the tests spell it.
BuilderKey(op) ==
    CASE op = "OrderBy" -> "orderBy"
      [] op = "EqualTo" -> "equalTo"
      [] op = "StartAt" -> "startAt"
      [] op = "EndAt" -> "endAt"
      [] op = "LimitToFirst" -> "limitToFirst"
      [] op = "LimitToLast" -> "limitToLast"
      [] op = "Shallow" -> "shallow"

BuilderText(op, arg) ==
    CASE op = "OrderBy" -> <<"\"", "field", "\"">>
      [] op = "EqualTo" -> IF arg.t = "bool" THEN <<"true">> ELSE <<"\"", "a", "\"">>
      [] op = "StartAt" -> <<"0">>
      [] op = "EndAt" -> <<"5">>
      [] op = "LimitToFirst" -> <<"5">>
      [] op = "LimitToLast" -> <<"1", "0">>
      [] op = "Shallow" -> <<"true">>

\* C24: a query builder returns a new client whose params are the
\* receiver's params with the one key set to the JSON text of the value, and
\* whose url and auth are the receiver's; Child returns one with the
\* receiver's params and auth and the path added to the url; and no client's
\* url, auth or params change after it was made, whatever is built from it.
C24_BuildersLeaveReceiver ==
    \A i \in 1..Len(clients) :
        LET c == clients[i]
        IN  /\ maps[c.params] = c.born
            /\ c.receiver > 0
                 => LET r == clients[c.receiver]
                    IN  /\ c.auth = r.auth
                        /\ IF c.op = "Child"
                           THEN /\ c.url = r.url \o <<"/", "child">>
                                /\ maps[c.params] = maps[r.params]
                           ELSE /\ c.url = r.url
                                /\ c.params # r.params
                                /\ \A k \in ParamKeys :
                                     maps[c.params][k] =
                                        IF k = BuilderKey(c.op)
                                        THEN BuilderText(c.op, c.arg)
                                        ELSE maps[r.params][k]

\* The chain Child, OrderBy, and from the ordered client LimitToLast: the
\* last client has both keys, the ordered one only its own.
C24_Witness ==
    /\ Len(clients) = 4
    /\ clients[2].op = "Child"
    /\ clients[3].op = "OrderBy" /\ clients[3].receiver = 2
    /\ clients[4].op = "LimitToLast" /\ clients[4].receiver = 3
    /\ maps[clients[4].params]["orderBy"] = <<"\"", "field", "\"">>
    /\ maps[clients[4].params]["limitToLast"] = <<"1", "0">>
    /\ maps[clients[3].params]["limitToLast"] = Absent
    /\ clients[4].url = <<"https://test.firebaseio.com", "/", "child">>

\* C25: parseTimeout and parseTunable return the value the variable parses
\* to when it is set to a parsable value (5m7s is 307 seconds, 10s is ten,
\* 0 is zero; 10, 0, -3 and +7 are integers), and the default when the
\* variable is unset, empty or unparsable.
C25_ParsedOrDefault ==
    /\ parsed.fn = "parseTimeout"
         => parsed.result =
               IF parsed.set /\ parsed.value = <<"5", "m", "7", "s">> THEN 307000
               ELSE IF parsed.set /\ parsed.value = <<"1", "0", "s">> THEN 10000
               ELSE IF parsed.set /\ parsed.value = <<"0">> THEN 0
               ELSE parsed.default
    /\ parsed.fn = "parseTunable"
         => parsed.result =
               IF parsed.set /\ parsed.value = <<"1", "0">> THEN 10
               ELSE IF parsed.set /\ parsed.value = <<"0">> THEN 0
               ELSE IF parsed.set /\ parsed.value = <<"-", "3">> THEN 0 - 3
               ELSE IF parsed.set /\ parsed.value = <<"+", "7">> THEN 7
               ELSE parsed.default

\* parseTunable was called with the variable set to an unparsable value and
\* returned its default.
C25_Witness ==
    /\ parsed.fn = "parseTunable"
    /\ parsed.set
    /\ parsed.value = <<"z", "z", "z", "z">>
    /\ parsed.default = 30
    /\ parsed.result = 30


---------------------------------------------------------------------------
\* The attempts Call has retried: all of them while the loop runs, all but
\* the last once it is left.
Retried == IF callPc = "request" THEN Attempts ELSE Attempts - 1

\* C31: Call makes at most 11 calls of doFirebaseRequest, the first and at
\* most ten retries; every retry, after a transport error or after a status
\* of 400 or above, in any order, takes one from the same retries; and Call
\* returns in the end.
C31_CallTerminates ==
    /\ [](/\ Attempts <= 11
          /\ retries >= 0
          /\ retries = Retries - Retried
          /\ callPc \in {"finish", "returned"} => Attempts >= 1)
    /\ <>(callPc = "returned")

\* Call returned on its eleventh attempt, after retries on transport errors
\* and on statuses of 400 or above.
C31_Witness ==
    /\ callPc = "returned"
    /\ Attempts = 11
    /\ attempts.transport = 4
    /\ attempts.status = 7
    /\ retries = 0

\* C32: the Body of every response Call obtained, one it retried after or the
\* one it ended with, is closed at most once, and exactly once when Call has
\* returned.
C32_BodiesClosedOnce ==
    /\ Len(respCloses) = attempts.status + attempts.ok
    /\ \A i \in 1..Len(respCloses) : respCloses[i] <= 1
    /\ \A i \in 1..(Len(respCloses) - 1) : respCloses[i] = 1
    /\ callPc = "returned" => \A i \in 1..Len(respCloses) : respCloses[i] = 1

\* Call returned with a response of status 200 it got after three retries on
\* a status of 400 or above, all four bodies closed.
C32_Witness ==
    /\ callPc = "returned"
    /\ callResp.status = 200
    /\ attempts.status = 3
    /\ respCloses = <<1, 1, 1, 1>>


---------------------------------------------------------------------------
\* The three goroutines of a session, the watchdog and the reader started by
\* Stream and the one started by Watch, have returned.
GoroutinesDone ==
    /\ wdPc = "done"
    /\ rPc = "done"
    /\ wPc = "done"

\* C33: once the reader's read has failed, with EOF or with a read error,
\* and with the caller receiving all that is sent on the output channel, the
\* three goroutines of the session all return in the end, also when stop is
\* never signalled.
C33_GoroutinesTerminate == (readErr # NilError) ~> GoroutinesDone

\* An auth_revoked frame has made Watch close its output channel.
Revoked ==
    /\ outCloses = 1
    /\ ~NotRevoked

\* The reader is at a send on its channel when the buffer is full and Watch's
\* goroutine, the only receiver, has returned: the send never completes.
ReaderStuckOnSend ==
    /\ rPc \in {"send", "sendClose"}
    /\ RawLen = ChanCap
    /\ wPc = "done"

\* C34: after Watch has closed its output channel on an auth_revoked frame,
\* the reader is never left at a send that cannot complete, however many
\* frames the server still sends; and once the connection has ended or stop
\* was signalled the reader returns.
C34_ReaderTerminatesAfterRevoke ==
    /\ [](Revoked => ~ReaderStuckOnSend)
    /\ (Revoked /\ (conn # "open" \/ stop # "idle")) ~> (rPc = "done")


---------------------------------------------------------------------------
\* The frames of the body whose two lines were read, each with its newline.
CompleteFrames == Len(wire) \div 2

\* C35: when the body ends with EOF inside a frame, its event line read but
\* its data line missing or without its newline, Stream sends the RawEvents
\* of the frames before it, none for the incomplete frame, and then the
\* closing RawEvent with a nil Error.
C35_IncompleteFrameDropped ==
    rPc = "done"
        => /\ Len(rawSent) = CompleteFrames + 1
           /\ \A k \in 1..CompleteFrames :
                 rawSent[k] = RawEvent(pairs[k][1], pairs[k][2], NilError, 2 * k)
           /\ rawSent[Len(rawSent)] = RawEvent(EmptyString, EmptyString, NilError, 0)
           /\ rawCloses = 1

\* The body ended inside the data line of its second frame: the reader held
\* the event line and a part of the data line, and sent the first frame and
\* the closing event.
C35_Witness ==
    /\ rPc = "done"
    /\ Len(pairs) = 2
    /\ Len(wire) = 3
    /\ firstLine = <<EventPrefix, "h", "i">>
    /\ lineBuf = <<DataPrefix, "h">>
    /\ Len(rawSent) = 2
    /\ rawSent[2].Error = NilError


---------------------------------------------------------------------------
\* RawEvent{}: the closing event of a stream that ended cleanly, but for the
\* position kept with every event here.
IsZeroRawEvent(e) ==
    /\ e.Event = EmptyString
    /\ e.Data = EmptyString
    /\ e.Error = NilError

\* C36: no RawEvent sent for a frame of the body equals RawEvent{}, the
\* closing event of a clean end of stream: a receiver on Stream's channel can
\* tell the two apart.
C36_FrameNeverZeroEvent ==
    \A k \in RawIdx : rawSent[k].idx > 0 => ~IsZeroRawEvent(rawSent[k])

====
